---------------------------- MODULE Spec2Model ----------------------------
(***************************************************************************)
(* Model of the credibility-checker search API.  The repository holds two  *)
(* versions of api/search.js:                                              *)
(*   - src/unnamed/part_000 : the decision-tree handler (kill gates),      *)
(*                            called impl "tree" below;                    *)
(*   - src/api/search.js    : the total-threshold handler (>= 25),         *)
(*                            called impl "total" below.                   *)
(* Strings are TLC strings; Len, SubSeq and \o act on them as on           *)
(* sequences of characters, so endsWith / startsWith / regex word tests    *)
(* are computed on the characters, as the JavaScript does.                 *)
(***************************************************************************)
EXTENDS Integers, Sequences, FiniteSets, TLC

VARIABLES
  \* ---- one request through handler ----
  impl,         \* which file serves the request: "tree" (part_000) or "total" (search.js)
  req,          \* the request: [method, query, max, scope, debug]
  creds,        \* process.env holds both CSE_KEY and CSE_CX
  pc,           \* where handler stands: "start", "cse", "crossref", "openalex",
                \* "wikipedia", "pubmed", "pool", "done"
  source_tier,  \* handler's source_tier
  pool,         \* handler's pool
  fbMap,        \* tierBSearch's map
  i,            \* mapLimited: the shared index, = number of items claimed
  out,          \* mapLimited: out[idx], <<>> for a hole or null, <<r>> for a result
  wk,           \* mapLimited: each worker's [st, idx]; st is "off" (not created),
                \* "headers" (awaiting fetch), "body" (awaiting r.text()) or "done"
  res,          \* the response written: [status, body]
  primary,      \* history: the pool the primary tier gave, once computed
  fbCalls,      \* history: number of tierBSearch invocations
  fbLog,        \* history: the answer each fallback provider gave, in call order
  claimed,      \* history: mapLimited's claims [w, idx], in the order they were made
  settled,      \* history: the indices whose task has settled, in settling order
  \* ---- one function applied to one input ----
  call,   \* the function call under check: [fn |-> name, ...arguments]
  phase,  \* "input": not yet called; "returned"; "reapplied" (ret2 is set)
  ret,    \* its return value
  ret2    \* the return value of the same function applied to ret

hvars == <<impl, req, creds, pc, source_tier, pool, fbMap, i, out, wk, res, primary, fbCalls,
          fbLog, claimed, settled>>
fvars == <<call, phase, ret, ret2>>
vars == <<hvars, fvars>>

-----------------------------------------------------------------------------
(* Curated lists                                                           *)

TIER1_CORE ==
  { "who.int", "un.org", "worldbank.org", "unesco.org", "unicef.org", "oecd.org", "imf.org",
    "nih.gov", "ncbi.nlm.nih.gov", "cdc.gov", "nasa.gov", "nist.gov", "epa.gov", "fda.gov",
    "europa.eu", "ec.europa.eu", "ema.europa.eu", "ecdc.europa.eu",
    "psa.gov.ph", "pids.gov.ph", "ched.gov.ph", "neda.gov.ph", "dost.gov.ph", "dict.gov.ph",
    "deped.gov.ph", "doh.gov.ph" }

TIER2_INDEXES ==
  { "pubmed.ncbi.nlm.nih.gov", "pmc.ncbi.nlm.nih.gov", "doi.org", "openalex.org", "crossref.org" }

TIER3_PUBLISHERS ==
  { "nature.com", "science.org", "thelancet.com", "nejm.org", "bmj.com", "plos.org",
    "jamanetwork.com", "springer.com", "link.springer.com", "onlinelibrary.wiley.com",
    "tandfonline.com", "ieeexplore.ieee.org", "dl.acm.org", "arxiv.org", "ieee.org",
    "jstor.org", "sagepub.com", "cambridge.org", "oup.com", "academic.oup.com" }

-----------------------------------------------------------------------------
(* JavaScript string primitives, on characters                             *)

\* String.prototype.startsWith
StartsWith(s, p) == Len(s) >= Len(p) /\ SubSeq(s, 1, Len(p)) = p

\* String.prototype.endsWith
EndsWith(s, t) == Len(s) >= Len(t) /\ SubSeq(s, Len(s) - Len(t) + 1, Len(s)) = t

\* String.prototype.includes; also an unanchored literal regex test
Includes(s, w) == \E k \in 1..(Len(s) - Len(w) + 1) : SubSeq(s, k, k + Len(w) - 1) = w

\* the characters of s from position k on (String.prototype.slice(k-1))
Drop(s, k) == SubSeq(s, k, Len(s))

UpperCase == <<"A","B","C","D","E","F","G","H","I","J","K","L","M",
               "N","O","P","Q","R","S","T","U","V","W","X","Y","Z">>
LowerCase == <<"a","b","c","d","e","f","g","h","i","j","k","l","m",
               "n","o","p","q","r","s","t","u","v","w","x","y","z">>

LowerChar(c) ==
  IF \E k \in 1..Len(UpperCase) : UpperCase[k] = c
  THEN LowerCase[CHOOSE k \in 1..Len(UpperCase) : UpperCase[k] = c]
  ELSE c

RECURSIVE ToLower(_)
ToLower(s) == IF s = "" THEN "" ELSE LowerChar(SubSeq(s, 1, 1)) \o ToLower(Drop(s, 2))

\* length of the longest prefix of s holding none of the characters in stop
RECURSIVE SpanUntil(_, _)
SpanUntil(s, stop) ==
  IF s = "" \/ SubSeq(s, 1, 1) \in stop THEN 0 ELSE 1 + SpanUntil(Drop(s, 2), stop)

-----------------------------------------------------------------------------
(* utils                                                                   *)

\* new URL(u) for the http(s) URLs the providers return: the hostname is the
\* authority up to the first "/", "?", "#" or ":", lower-cased; anything that
\* has no http(s) scheme or no host makes the constructor throw.
URLParse(u) ==
  LET rest == IF StartsWith(ToLower(u), "https://") THEN Drop(u, 9)
              ELSE IF StartsWith(ToLower(u), "http://") THEN Drop(u, 8)
              ELSE ""
      name == SubSeq(rest, 1, SpanUntil(rest, {"/", "?", "#", ":"}))
  IN  [ok |-> name # "", hostname |-> ToLower(name)]

\* hostOf: hostname without one leading "www."; "" when the URL does not parse
hostOf(u) ==
  LET p == URLParse(u)
  IN  IF ~p.ok THEN ""
      ELSE IF StartsWith(p.hostname, "www.") THEN Drop(p.hostname, 5)
      ELSE p.hostname

\* the govEdu test that isTrustedHost, scoreAuthority, scoreCurrency and
\* pdfAdjust all spell out
govEduHost(h) ==
  EndsWith(h, ".gov") \/ EndsWith(h, ".edu") \/ EndsWith(h, ".int") \/ EndsWith(h, ".gov.ph")

\* a matchesTier whose endsWith lost the "." in front of the entry
matchesTier_NoDot(h, tier) == \E t \in tier : h = t \/ EndsWith(h, t)

\* LIST.some(t => h===t || h.endsWith(`.${t}`))
matchesTier(h, tier) == \E t \in tier : h = t \/ EndsWith(h, "." \o t)

\* an isTrustedHost whose strict branch tests the core table only
isTrustedHost_StrictCoreOnly(host, scope) ==
  IF host = "" THEN FALSE
  ELSE IF scope = "strict" THEN matchesTier(host, TIER1_CORE)
  ELSE IF scope = "wide" THEN
         govEduHost(host) \/ matchesTier(host, TIER1_CORE)
           \/ matchesTier(host, TIER2_INDEXES) \/ matchesTier(host, TIER3_PUBLISHERS)
  ELSE TRUE

isTrustedHost(host, scope) ==
  IF host = "" THEN FALSE
  ELSE IF scope = "strict" THEN govEduHost(host) \/ matchesTier(host, TIER1_CORE)
  ELSE IF scope = "wide" THEN
         govEduHost(host) \/ matchesTier(host, TIER1_CORE)
           \/ matchesTier(host, TIER2_INDEXES) \/ matchesTier(host, TIER3_PUBLISHERS)
  ELSE TRUE


-----------------------------------------------------------------------------
(* JavaScript Map, as the list of its entries in insertion order           *)

MapHas(m, k) == \E j \in 1..Len(m) : m[j].key = k

\* Map.prototype.set: a new key is appended; an existing key keeps its place
\* and takes the new value
MapSet(m, k, v) ==
  IF MapHas(m, k)
  THEN [j \in 1..Len(m) |-> IF m[j].key = k THEN [key |-> k, val |-> v] ELSE m[j]]
  ELSE Append(m, [key |-> k, val |-> v])

\* [...map.values()]
MapValues(m) == [j \in 1..Len(m) |-> m[j].val]

-----------------------------------------------------------------------------
(* Candidate aggregation                                                   *)

RECURSIVE dedupeLoop(_, _)
dedupeLoop(by, list) ==
  IF list = <<>> THEN by
  ELSE LET c == Head(list)
       IN  dedupeLoop(IF MapHas(by, c.url) THEN by ELSE MapSet(by, c.url, c), Tail(list))

\* a dedupeList whose loop lost its has() test: a later duplicate overwrites
RECURSIVE overwriteLoop(_, _)
overwriteLoop(by, list) ==
  IF list = <<>> THEN by
  ELSE overwriteLoop(MapSet(by, Head(list).url, Head(list)), Tail(list))

dedupeList_Overwrite(list) == MapValues(overwriteLoop(<<>>, list))

dedupeList(list) == MapValues(dedupeLoop(<<>>, list))

RECURSIVE prefilterLoop(_, _, _)
prefilterLoop(byUrl, list, mode) ==
  IF list = <<>> THEN byUrl
  ELSE LET c == Head(list)
           h == hostOf(c.url)
       IN  prefilterLoop(
             IF ~isTrustedHost(h, mode) THEN byUrl
             ELSE IF MapHas(byUrl, c.url) THEN byUrl
             ELSE MapSet(byUrl, c.url, [title |-> c.title, url |-> c.url, host |-> h]),
             Tail(list), mode)

prefilterCandidates(list, mode) == MapValues(prefilterLoop(<<>>, list, mode))

-----------------------------------------------------------------------------
(* Page content.  The text of a fetched page is the set of its tokens      *)
(* (words and links, in lower case: every pattern below carries the /i     *)
(* flag); a pattern matches the page when it matches inside a token.       *)

\* /w1|w2|.../i.test(html)
Test(html, words) == \E tok \in html : \E w \in words : Includes(tok, w)

Digits == {"0","1","2","3","4","5","6","7","8","9"}
Letters == {LowerCase[k] : k \in 1..Len(LowerCase)}

\* length of the longest prefix of s made of characters in class
RECURSIVE SpanWhile(_, _)
SpanWhile(s, class) ==
  IF s = "" \/ SubSeq(s, 1, 1) \notin class THEN 0 ELSE 1 + SpanWhile(Drop(s, 2), class)

\* s continues a match of  \d+\.\d+\/[^\s"'<)]+  (the text after "doi.org/")
DoiTail(s) ==
  LET a  == SpanWhile(s, Digits)
      s2 == Drop(s, a + 1)
      b  == SpanWhile(Drop(s2, 2), Digits)
      s3 == Drop(s2, b + 2)
  IN  /\ a >= 1 /\ StartsWith(s2, ".")
      /\ b >= 1 /\ StartsWith(s3, "/")
      /\ Len(s3) >= 2 /\ SubSeq(s3, 2, 2) \notin {" ", "\"", "'", "<", ")"}

\* /doi\.org\/\d+\.\d+\/[^\s"'<)]+/i matches inside tok
HasDoiLink(tok) ==
  \E k \in 1..Len(tok) : StartsWith(Drop(tok, k), "doi.org/") /\ DoiTail(Drop(tok, k + 8))

\* s continues a match of  [a-z0-9.-]+\.(gov|edu|int)(\.[a-z.]+)?\/  (the
\* text after the scheme)
GovEdAuthority(s) ==
  LET n == SpanWhile(s, Letters \cup Digits \cup {".", "-"})
      H == SubSeq(s, 1, n)
  IN  /\ n < Len(s) /\ SubSeq(s, n + 1, n + 1) = "/"
      /\ \E j \in 2..(Len(H) - 3) :
           /\ SubSeq(H, j, j + 3) \in {".gov", ".edu", ".int"}
           /\ \/ j + 3 = Len(H)
              \/ /\ Len(H) >= j + 5 /\ SubSeq(H, j + 4, j + 4) = "."
                 /\ SpanWhile(Drop(H, j + 5), Letters \cup {"."}) = Len(H) - (j + 4)

\* /https?:\/\/[a-z0-9.-]+\.(gov|edu|int)(\.[a-z.]+)?\//i matches inside tok
HasGovEdLink(tok) ==
  \E k \in 1..Len(tok) :
    \/ StartsWith(Drop(tok, k), "https://") /\ GovEdAuthority(Drop(tok, k + 8))
    \/ StartsWith(Drop(tok, k), "http://") /\ GovEdAuthority(Drop(tok, k + 7))

\* (html.match(/.../gi)||[]).length, a token holding at most one link
CountDoi(html) == Cardinality({tok \in html : HasDoiLink(tok)})
CountGovEd(html) == Cardinality({tok \in html : HasGovEdLink(tok)})

-----------------------------------------------------------------------------
(* Dates.  A date string is given or empty, parses or not, and when it     *)
(* parses lies ageDays whole days before Date.now().                       *)

NoDate == [given |-> FALSE, valid |-> FALSE, ageDays |-> 0]
BadDate == [given |-> TRUE, valid |-> FALSE, ageDays |-> 0]
DateAged(d) == [given |-> TRUE, valid |-> TRUE, ageDays |-> d]

\* meta.modified || meta.published || ""
DateOperand(meta) ==
  IF meta.modified.given THEN meta.modified
  ELSE IF meta.published.given THEN meta.published
  ELSE NoDate

\* months <= m, for months = (Date.now() - t) / (1000*60*60*24*30)
MonthsAtMost(d, m) == d.ageDays <= m * 30

-----------------------------------------------------------------------------
(* page fetch + meta.  A fetch outcome is                                  *)
(*   [kind |-> "fail"]  fetch threw: network error, abort on timeout       *)
(*   [kind |-> "pdf"]   the content-type header names pdf                  *)
(*   [kind |-> "html", title, author, published, modified, site, html]     *)
(* with site the og:site_name / publisher meta tag ("" when absent).       *)

HostOnlyMeta(u) ==
  [url |-> u, title |-> "", author |-> "", published |-> NoDate, modified |-> NoDate,
   publisher |-> hostOf(u), html |-> {}, pdf |-> FALSE]

\* guessPublisher(html, host) || host
guessPublisher(page, host) == IF page.site # "" THEN page.site ELSE host

\* a getPageMeta whose catch returns what the PDF branch returns
getPageMeta_FailAsPdf(u, page) ==
  IF page.kind \in {"fail", "pdf"} THEN [HostOnlyMeta(u) EXCEPT !.pdf = TRUE]
  ELSE [url |-> u, title |-> page.title, author |-> page.author,
        published |-> page.published, modified |-> page.modified,
        publisher |-> guessPublisher(page, hostOf(u)), html |-> page.html, pdf |-> FALSE]

\* getPageMeta of part_000: a PDF keeps its flag
getPageMeta(u, page) ==
  IF page.kind = "fail" THEN HostOnlyMeta(u)
  ELSE IF page.kind = "pdf" THEN [HostOnlyMeta(u) EXCEPT !.pdf = TRUE]
  ELSE [url |-> u, title |-> page.title, author |-> page.author,
        published |-> page.published, modified |-> page.modified,
        publisher |-> guessPublisher(page, hostOf(u)), html |-> page.html, pdf |-> FALSE]

\* getPageMeta of search.js: a PDF is host-only metadata without a flag
getPageMetaOne(u, page) ==
  IF page.kind \in {"fail", "pdf"} THEN HostOnlyMeta(u)
  ELSE getPageMeta(u, page)

-----------------------------------------------------------------------------
(* scoring                                                                 *)

\* scoreAuthority (the same in both files)
scoreAuthority(meta, url) ==
  LET h == hostOf(url)
      major == \/ govEduHost(h)
               \/ matchesTier(h, TIER1_CORE)
               \/ matchesTier(h, TIER2_INDEXES)
               \/ matchesTier(h, TIER3_PUBLISHERS)
  IN  IF major THEN 5 ELSE IF meta.author # "" THEN 3 ELSE 1

\* scoreAccuracy (the same in both files; meta.html is never undefined)
scoreAccuracy(meta) ==
  LET doi   == CountDoi(meta.html)
      govEd == CountGovEd(meta.html)
      refsH == Test(meta.html, {"references", "citations", "bibliography"})
  IN  IF doi + govEd >= 3 THEN 5
      ELSE IF refsH \/ doi + govEd >= 1 THEN 3
      ELSE 1

\* a scoreCurrency without the allowance for undated PDFs
scoreCurrency_NoPdfAllowance(meta, url) ==
  LET t == DateOperand(meta)
  IN  IF t.valid THEN
        IF MonthsAtMost(t, 18) THEN 5 ELSE IF MonthsAtMost(t, 60) THEN 3 ELSE 1
      ELSE 1

\* scoreCurrency of part_000
scoreCurrency(meta, url) ==
  LET t == DateOperand(meta)
  IN  IF t.valid THEN
        IF MonthsAtMost(t, 18) THEN 5 ELSE IF MonthsAtMost(t, 60) THEN 3 ELSE 1
      ELSE IF meta.pdf /\ govEduHost(hostOf(url)) THEN 3
      ELSE 1

\* scoreCurrency of search.js
scoreCurrencyOne(meta) ==
  LET t == DateOperand(meta)
  IN  IF t.valid THEN
        IF MonthsAtMost(t, 18) THEN 5 ELSE IF MonthsAtMost(t, 60) THEN 3 ELSE 1
      ELSE 1

Biased(html) ==
  /\ Test(html, {"opinion", "editorial", "commentary"})
  /\ ~Test(html, {"methods", "references", "bibliography"})

\* scoreObjectivity of part_000
scoreObjectivity(meta) == IF Biased(meta.html) THEN 2 ELSE 4

\* scoreObjectivity of search.js
scoreObjectivityOne(meta) == IF Biased(meta.html) THEN 3 ELSE 4

\* scorePurpose of part_000
scorePurpose(meta) ==
  LET info == Test(meta.html, {"research", "report", "method", "policy", "guideline",
                               "factsheet", "fact sheet", "whitepaper", "white paper",
                               "dataset"})
      ad   == Test(meta.html, {"advert", "sponsored", "buy now", "subscribe", "promotion",
                               "shop"})
  IN  IF ad THEN 1 ELSE IF info THEN 5 ELSE 3

\* scorePurpose of search.js: sc = info ? 5 : 3; if (ads) sc = Math.min(sc, 3)
scorePurposeOne(meta) ==
  LET info == Test(meta.html, {"research", "report", "method", "policy", "about",
                               "dataset", "guideline", "factsheet", "fact sheet"})
      ads  == Test(meta.html, {"advert", "sponsored", "subscribe", "buy now"})
      sc   == IF info THEN 5 ELSE 3
  IN  IF ads /\ sc > 3 THEN 3 ELSE sc

\* scoreAudience of part_000
scoreAudience(meta) ==
  LET veryTech  == /\ Test(meta.html, {"complexity", "notation", "theorem", "proof",
                                       "asymptotic"})
                   /\ Test(meta.html, {"references"})
      marketing == Test(meta.html, {"buy", "pricing", "plans", "signup", "subscribe",
                                    "resources for customers"})
  IN  IF marketing THEN 2 ELSE IF veryTech THEN 3 ELSE 3

\* scoreAudience of search.js
scoreAudienceOne == 3

CriterionOrder == <<"Authority", "Accuracy", "Currency", "Objectivity", "Purpose", "Audience">>

\* a PDF adjustment that does not look at the host
pdfAdjust_AnyPdf(meta, url, scores) ==
  IF ~meta.pdf THEN scores
  ELSE [scores EXCEPT !.Authority = IF @ < 5 THEN 5 ELSE @,
                      !.Accuracy  = IF @ < 3 THEN 3 ELSE @]

\* PDF adjustment, returning the adjusted scores object
pdfAdjust(meta, url, scores) ==
  IF ~meta.pdf THEN scores
  ELSE IF govEduHost(hostOf(url)) THEN
    [scores EXCEPT !.Authority = IF @ < 5 THEN 5 ELSE @,
                   !.Accuracy  = IF @ < 3 THEN 3 ELSE @]
  ELSE scores

\* meta.title || c.title || c.url
TitleOf(meta, c) ==
  IF meta.title # "" THEN meta.title ELSE IF c.title # "" THEN c.title ELSE c.url

\* meta.publisher || hostOf(c.url)
PublisherOf(meta, c) == IF meta.publisher # "" THEN meta.publisher ELSE hostOf(c.url)

\* parts.reduce((s,p)=>s+p.score,0)
SumScores(scores) ==
  scores.Authority + scores.Accuracy + scores.Currency
    + scores.Objectivity + scores.Purpose + scores.Audience

\* a finalize that sums only the criteria reached before the kill gate
finalize_SkipAfterKill(meta, c, scoresObj, notes, verdict, failedStage) ==
  [title |-> TitleOf(meta, c), url |-> c.url, publisher |-> PublisherOf(meta, c),
   scores |-> scoresObj,
   score_total |-> IF failedStage = "Accuracy" THEN scoresObj.Authority + scoresObj.Accuracy
                   ELSE IF failedStage = "Objectivity"
                        THEN scoresObj.Authority + scoresObj.Accuracy
                               + scoresObj.Currency + scoresObj.Objectivity
                   ELSE SumScores(scoresObj),
   verdict |-> verdict, stage_notes |-> notes, failed_stage |-> failedStage]

\* finalize (the citation and the explanation strings are not modelled)
finalize(meta, c, scoresObj, notes, verdict, failedStage) ==
  [title |-> TitleOf(meta, c), url |-> c.url, publisher |-> PublisherOf(meta, c),
   scores |-> scoresObj, score_total |-> SumScores(scoresObj), verdict |-> verdict,
   stage_notes |-> notes, failed_stage |-> failedStage]

\* a note that is failed-soft whatever the criterion
Note_AlwaysSoft(stage, status) == [stage |-> stage, status |-> "failed-soft"]

\* stage_notes.push({ stage, status, ... }) (the reason text is not modelled)
Note(stage, status) == [stage |-> stage, status |-> status]

\* a decision tree that tests the Objectivity gate before the Accuracy gate
decisionTree_ObjectivityFirst(meta, c, scores) ==
  LET n1 == IF scores.Authority < 3 THEN <<Note("Authority", "failed-soft")>> ELSE <<>>
      n3 == IF scores.Currency < 3 THEN Append(n1, Note("Currency", "failed-soft")) ELSE n1
      n5 == IF scores.Purpose < 3 THEN Append(n3, Note("Purpose", "explain")) ELSE n3
      n6 == IF scores.Audience < 3 THEN Append(n5, Note("Audience", "explain")) ELSE n5
  IN  IF scores.Objectivity < 3
      THEN finalize(meta, c, scores, n3, "NOT_CREDIBLE", "Objectivity")
      ELSE IF scores.Accuracy < 3
           THEN finalize(meta, c, scores, n1, "NOT_CREDIBLE", "Accuracy")
      ELSE finalize(meta, c, scores, n6, "CREDIBLE", "null")

\* the decision tree on the re-read scores, from "const stage_notes = []" on
decisionTree(meta, c, scores) ==
  LET n1 == IF scores.Authority < 3 THEN <<Note("Authority", "failed-soft")>> ELSE <<>>
      n3 == IF scores.Currency < 3 THEN Append(n1, Note("Currency", "failed-soft")) ELSE n1
      n5 == IF scores.Purpose < 3 THEN Append(n3, Note("Purpose", "explain")) ELSE n3
      n6 == IF scores.Audience < 3 THEN Append(n5, Note("Audience", "explain")) ELSE n5
  IN  IF scores.Accuracy < 3 THEN finalize(meta, c, scores, n1, "NOT_CREDIBLE", "Accuracy")
      ELSE IF scores.Objectivity < 3
           THEN finalize(meta, c, scores, n3, "NOT_CREDIBLE", "Objectivity")
      ELSE finalize(meta, c, scores, n6, "CREDIBLE", "null")

\* the six criterion scores of part_000, in the order analyzeDecisionTree
\* computes them
criteriaTree(meta, url) ==
  [Authority   |-> scoreAuthority(meta, url),
   Accuracy    |-> scoreAccuracy(meta),
   Currency    |-> scoreCurrency(meta, url),
   Objectivity |-> scoreObjectivity(meta),
   Purpose     |-> scorePurpose(meta),
   Audience    |-> scoreAudience(meta)]

\* a pipeline that gates on the raw scores and reports the adjusted ones
adjustAndDecide_GateOnRaw(meta, c, scores) ==
  [decisionTree(meta, c, scores) EXCEPT
     !.scores = pdfAdjust(meta, c.url, scores),
     !.score_total = SumScores(pdfAdjust(meta, c.url, scores))]

\* pdfAdjust writes the adjusted values back into the parts; the tree then
\* re-reads them
adjustAndDecide(meta, c, scores) == decisionTree(meta, c, pdfAdjust(meta, c.url, scores))

\* analyzeDecisionTree(c) from the metadata on
analyzeMeta(c, meta) == adjustAndDecide(meta, c, criteriaTree(meta, c.url))

\* analyzeDecisionTree(c), given what the fetch of c.url produced
analyzeDecisionTree(c, page) == analyzeMeta(c, getPageMeta(c.url, page))

\* the six criterion scores of search.js, in the order analyzeOne computes them
criteriaOne(meta, url) ==
  [Purpose     |-> scorePurposeOne(meta),
   Authority   |-> scoreAuthority(meta, url),
   Audience    |-> scoreAudienceOne,
   Objectivity |-> scoreObjectivityOne(meta),
   Accuracy    |-> scoreAccuracy(meta),
   Currency    |-> scoreCurrencyOne(meta)]

\* a verdict step that also returns the LIMITED band (total >= 20) as CREDIBLE
verdictOne_Threshold20(c, meta, scores) ==
  IF SumScores(scores) < 20 THEN <<>>
  ELSE << [title |-> TitleOf(meta, c), url |-> c.url, publisher |-> PublisherOf(meta, c),
           score_total |-> SumScores(scores), verdict |-> "CREDIBLE", scores |-> scores] >>

\* total, verdict and the value analyzeOne returns; <<>> stands for the null
\* it returns for a verdict other than CREDIBLE
verdictOne(c, meta, scores) ==
  LET total   == SumScores(scores)
      verdict == IF total >= 25 THEN "CREDIBLE"
                 ELSE IF total >= 20 THEN "LIMITED" ELSE "NOT_CREDIBLE"
  IN  IF verdict # "CREDIBLE" THEN <<>>
      ELSE << [title |-> TitleOf(meta, c), url |-> c.url, publisher |-> PublisherOf(meta, c),
               score_total |-> total, verdict |-> verdict, scores |-> scores] >>

\* analyzeOne(c) from the metadata on
analyzeOneMeta(c, meta) == verdictOne(c, meta, criteriaOne(meta, c.url))

\* analyzeOne(c), given what the fetch of c.url produced
analyzeOne(c, page) == analyzeOneMeta(c, getPageMetaOne(c.url, page))

-----------------------------------------------------------------------------
(* Request parameters                                                      *)

\* a query parameter the request does not carry
Absent == "<absent>"

\* destructuring default:  name = dflt
Param(v, dflt) == IF v = Absent THEN dflt ELSE v

\* String.prototype.trim, for blanks
RECURSIVE TrimStart(_)
TrimStart(s) == IF StartsWith(s, " ") THEN TrimStart(Drop(s, 2)) ELSE s
RECURSIVE TrimEnd(_)
TrimEnd(s) == IF EndsWith(s, " ") THEN TrimEnd(SubSeq(s, 1, Len(s) - 1)) ELSE s
Trim(s) == TrimEnd(TrimStart(s))

DigitValue(c) == CHOOSE d \in 0..9 : <<"0","1","2","3","4","5","6","7","8","9">>[d + 1] = c

RECURSIVE DigitsValue(_, _)
DigitsValue(s, acc) ==
  IF s = "" THEN acc ELSE DigitsValue(Drop(s, 2), 10 * acc + DigitValue(SubSeq(s, 1, 1)))

\* parseInt(s, 10): blanks, an optional sign, then the longest run of digits;
\* NaN when there is no digit
parseInt(s) ==
  LET t    == TrimStart(s)
      neg  == StartsWith(t, "-")
      body == IF neg \/ StartsWith(t, "+") THEN Drop(t, 2) ELSE t
      n    == SpanWhile(body, Digits)
      v    == DigitsValue(SubSeq(body, 1, n), 0)
  IN  [nan |-> n = 0, val |-> IF neg THEN 0 - v ELSE v]

Min(a, b) == IF a <= b THEN a ELSE b
Max(a, b) == IF a >= b THEN a ELSE b

MaxLimit == 12
DefaultLimit == 8
PoolCap == 20
PoolWidth == 4
DebugCap == 10

\* const limit = Math.min(parseInt(max,10)||8, 12)
LimitOf(r) ==
  LET n == parseInt(Param(r.max, "8"))
  IN  Min(IF n.nan \/ n.val = 0 THEN DefaultLimit ELSE n.val, MaxLimit)

\* const mode = (scope === "strict" || scope === "wide") ? scope : "web"
ModeOf(r) == IF Param(r.scope, "web") \in {"strict", "wide"} THEN r.scope ELSE "web"

\* const query = String(q).trim()
QueryOf(r) == Trim(Param(r.query, ""))

\* Array.prototype.slice(0, end)
Slice0(list, end) ==
  LET e == IF end < 0 THEN Max(Len(list) + end, 0) ELSE Min(end, Len(list))
  IN  SubSeq(list, 1, e)

\* stable insertion of x into a list sorted by descending score_total
RECURSIVE InsertDesc(_, _)
InsertDesc(sorted, x) ==
  IF sorted = <<>> THEN <<x>>
  ELSE IF Head(sorted).score_total >= x.score_total
       THEN <<Head(sorted)>> \o InsertDesc(Tail(sorted), x)
       ELSE <<x>> \o sorted

\* .sort((a,b) => b.score_total - a.score_total), which is stable
RECURSIVE SortDesc(_)
SortDesc(list) ==
  IF list = <<>> THEN <<>>
  ELSE InsertDesc(SortDesc(SubSeq(list, 1, Len(list) - 1)), list[Len(list)])

-----------------------------------------------------------------------------
(* providers                                                               *)

FallbackTier == "Crossref/OpenAlex/Wikipedia/PubMed"

\* cseSearch on a response: [kind |-> "ok", items] gives the candidates; any
\* other kind ("abort", "429", "http", "json") makes it throw
cseThrows(r) == r.kind # "ok"
cseItems(r) == [k \in 1..Len(r.items) |-> [title |-> r.items[k].title, url |-> r.items[k].link]]

RECURSIVE SetAll(_, _)
SetAll(m, entries) ==
  IF entries = <<>> THEN m
  ELSE SetAll(MapSet(m, Head(entries).url, Head(entries)), Tail(entries))

\* the (title, url) a Crossref item gives; <<>> when it has neither URL nor DOI
crossrefEntry(it) ==
  LET url == IF it.URL # "" THEN it.URL
             ELSE IF it.DOI # "" THEN "https://doi.org/" \o it.DOI ELSE ""
  IN  IF url = "" THEN <<>>
      ELSE << [title |-> IF it.title # "" THEN it.title ELSE url, url |-> url] >>

\* the (title, url) an OpenAlex result gives
openAlexEntry(it) ==
  LET url == IF it.hosted # "" THEN it.hosted
             ELSE IF it.landing # "" THEN it.landing
             ELSE IF it.doi # "" THEN "https://doi.org/" \o it.doi ELSE ""
  IN  IF url = "" THEN <<>>
      ELSE << [title |-> IF it.title # "" THEN it.title ELSE url, url |-> url] >>

RECURSIVE Concat(_)
Concat(ss) == IF ss = <<>> THEN <<>> ELSE Head(ss) \o Concat(Tail(ss))

\* addCrossref / addOpenAlex / addWikipediaRefs / addPubMed on a response
\* [kind |-> "fail"] (fetch or json threw: nothing is added) or
\* [kind |-> "ok", rows |-> ...]
addCrossref(r, map) ==
  IF r.kind = "fail" THEN map
  ELSE SetAll(map, Concat([n \in 1..Len(r.rows) |-> crossrefEntry(r.rows[n])]))

\* an addOpenAlex whose failure escapes and takes the gathered entries with it
addOpenAlex_FailClears(r, map) ==
  IF r.kind = "fail" THEN <<>>
  ELSE SetAll(map, Concat([n \in 1..Len(r.rows) |-> openAlexEntry(r.rows[n])]))

addOpenAlex(r, map) ==
  IF r.kind = "fail" THEN map
  ELSE SetAll(map, Concat([n \in 1..Len(r.rows) |-> openAlexEntry(r.rows[n])]))

\* the credibility pattern of addWikipediaRefs
wikiLinkKept(L) ==
  \E w \in {"doi.org", ".gov.", ".gov/", ".edu.", ".edu/", "who.int", "un.org",
            "worldbank.org", "unesco.org", "unicef.org", "nih.gov", "oecd.org", "imf.org"} :
    Includes(ToLower(L), w)

wikiEntry(L) == IF wikiLinkKept(L) THEN << [title |-> L, url |-> L] >> ELSE <<>>

\* rows are the external links of the best-matching article (none when the
\* search found no page)
addWikipediaRefs(r, map) ==
  IF r.kind = "fail" THEN map
  ELSE SetAll(map, Concat([n \in 1..Len(r.rows) |-> wikiEntry(r.rows[n])]))

pubMedEntry(id) ==
  << [title |-> "PubMed " \o id, url |-> "https://pubmed.ncbi.nlm.nih.gov/" \o id \o "/"] >>

addPubMed(r, map) ==
  IF r.kind = "fail" THEN map
  ELSE SetAll(map, Concat([n \in 1..Len(r.rows) |-> pubMedEntry(r.rows[n])]))

-----------------------------------------------------------------------------
(* The world a request runs in: what each provider answers to a query and  *)
(* what each URL serves.  A provider answers a query in one of the listed  *)
(* ways; the handler cannot tell which beforehand.                         *)

WhoUrl == "https://www.who.int/a"
BlogUrl == "https://blog.example.com/post"
DoiUrl == "https://doi.org/10.1000/a"
PdfUrl == "https://www.cdc.gov/files/guide.pdf"

\* well cited, signed, recent
CitedPage ==
  [kind |-> "html", title |-> "Annual report - Org", author |-> "Jane Roe", site |-> "Org",
   published |-> DateAged(300), modified |-> NoDate,
   html |-> {"https://doi.org/10.1000/a", "https://doi.org/10.1000/b",
             "https://www.cdc.gov/report/"}]

\* an unsigned, undated opinion piece without sources
OpinionPage ==
  [kind |-> "html", title |-> "", author |-> "", site |-> "",
   published |-> NoDate, modified |-> NoDate, html |-> {"opinion", "subscribe"}]

\* an undated page with a references heading
RefsPage ==
  [kind |-> "html", title |-> "Record", author |-> "", site |-> "",
   published |-> NoDate, modified |-> NoDate, html |-> {"references"}]

\* the query whose primary answer overfills the worker pool
BusyQuery == "climate"

BusyItems ==
  << [title |-> "N1", link |-> "https://www.nature.com/articles/1"],
     [title |-> "N2", link |-> "https://www.nature.com/articles/2"],
     [title |-> "N3", link |-> "https://www.nature.com/articles/3"],
     [title |-> "N4", link |-> "https://www.nature.com/articles/4"],
     [title |-> "N5", link |-> "https://www.nature.com/articles/5"] >>

\* the query the scholarly indexes answer with more candidates than the cap
FloodQuery == "flood"

FloodPrefix == "https://doi.org/10.2000/"

Numeral == << "01", "02", "03", "04", "05", "06", "07", "08", "09", "10", "11",
              "12", "13", "14", "15", "16", "17", "18", "19", "20", "21", "22" >>

\* a full Crossref page (rows=15) and seven further works from OpenAlex
FloodCrossrefRows ==
  [n \in 1..15 |-> [URL |-> "", DOI |-> "10.2000/" \o Numeral[n], title |-> "F" \o Numeral[n]]]
FloodOpenAlexRows ==
  [n \in 1..7 |-> [hosted |-> "", landing |-> FloodPrefix \o Numeral[15 + n], doi |-> "",
                   title |-> "F" \o Numeral[15 + n]]]

CseResponses(q) ==
  IF q = BusyQuery THEN {[kind |-> "ok", items |-> BusyItems]}
  ELSE IF q = FloodQuery THEN {[kind |-> "ok", items |-> <<>>]}
  ELSE { [kind |-> "abort"], [kind |-> "429"], [kind |-> "http"], [kind |-> "json"],
         [kind |-> "ok", items |-> <<>>],
         [kind |-> "ok", items |-> << [title |-> "Blog", link |-> BlogUrl] >>],
         [kind |-> "ok", items |-> << [title |-> "Blog",   link |-> BlogUrl],
                                      [title |-> "WHO a",  link |-> WhoUrl],
                                      [title |-> "WHO a2", link |-> WhoUrl] >>] }

CrossrefResponses(q) ==
  IF q = FloodQuery THEN {[kind |-> "ok", rows |-> FloodCrossrefRows]} ELSE
  { [kind |-> "fail"],
    [kind |-> "ok", rows |-> << [URL |-> "", DOI |-> "10.1000/a", title |-> "Crossref title"] >>] }

OpenAlexResponses(q) ==
  IF q = FloodQuery THEN {[kind |-> "ok", rows |-> FloodOpenAlexRows]} ELSE
  { [kind |-> "fail"],
    [kind |-> "ok", rows |-> << [hosted |-> "", landing |-> DoiUrl, doi |-> "",
                                 title |-> "OpenAlex title"] >>] }

WikipediaResponses(q) ==
  IF q = FloodQuery THEN {[kind |-> "fail"]} ELSE
  { [kind |-> "fail"],
    [kind |-> "ok", rows |-> << PdfUrl, BlogUrl >>] }

PubMedResponses(q) ==
  IF q = FloodQuery THEN {[kind |-> "fail"]} ELSE
  { [kind |-> "fail"],
    [kind |-> "ok", rows |-> << "1" >>] }

\* the content types a URL may be served with
ContentTypes(u) == IF EndsWith(u, ".pdf") THEN {"pdf", "html"} ELSE {"html"}

\* the resolver of the flood's DOIs answers its requests one at a time, in
\* the order it received them, and does not fail
Serial(u) == StartsWith(u, FloodPrefix)

\* the pages a URL may serve as HTML
Bodies(u) ==
  LET h == hostOf(u)
  IN  IF h = "nature.com" \/ Serial(u) THEN {CitedPage}
      ELSE IF h \in {"pubmed.ncbi.nlm.nih.gov", "cdc.gov"} THEN {RefsPage}
      ELSE {CitedPage, OpinionPage}

MaxParams == {Absent, "abc", "0", "-1", "1", "50"}
ScopeParams == {Absent, "wide", "strict"}

HandlerRequests ==
  { [method |-> "OPTIONS", query |-> Absent, max |-> Absent, scope |-> Absent, debug |-> Absent],
    [method |-> "GET", query |-> Absent, max |-> Absent, scope |-> Absent, debug |-> Absent],
    [method |-> "GET", query |-> "   ", max |-> "3", scope |-> "wide", debug |-> Absent],
    [method |-> "GET", query |-> "vaccines", max |-> Absent, scope |-> "everything",
     debug |-> "1"],
    [method |-> "GET", query |-> BusyQuery, max |-> Absent, scope |-> Absent, debug |-> Absent] }
  \cup [method : {"GET"}, query : {FloodQuery}, max : {Absent, "-1", "50", "abc"},
        scope : {Absent}, debug : {Absent}]
  \cup [method : {"GET"}, query : {" vaccines "}, max : MaxParams, scope : ScopeParams,
        debug : {Absent}]

-----------------------------------------------------------------------------
(* mapLimited and handler                                                  *)

Impls == {"tree", "total"}

\* dedupeList(candidates) in part_000, prefilterCandidates(candidates, mode)
\* in search.js
Aggregate(im, list, mode) ==
  IF im = "tree" THEN dedupeList(list) ELSE prefilterCandidates(list, mode)

\* a fallback test on the raw candidate list instead of the aggregated pool
ShouldFallback_OnCandidates(candidates, p) == Len(candidates) = 0

\* the condition that a tier's pool calls for the fallback:  pool.length === 0
ShouldFallback(candidates, p) == Len(p) = 0

\* fn(items[idx]) once the fetch is over: analyzeDecisionTree always returns a
\* result, analyzeOne a result or null
Analyze(im, c, page) ==
  IF im = "tree" THEN <<analyzeDecisionTree(c, page)>> ELSE analyzeOne(c, page)

\* out.filter(Boolean)
FilterBoolean(o) == Concat(o)

IsCredible(x) == x.verdict = "CREDIBLE"
NotCredible(x) == x.verdict # "CREDIBLE"

\* the results list of the success response
ResultsOf(im, analyzed, limit) ==
  IF im = "tree" THEN Slice0(SelectSeq(analyzed, IsCredible), limit)
  ELSE Slice0(SortDesc(SelectSeq(analyzed, IsCredible)), limit)

\* the payload of the success response
PayloadOf(im, r, tier, analyzed) ==
  LET base == [query |-> QueryOf(r), scope |-> ModeOf(r), source_tier |-> tier,
               results |-> ResultsOf(im, analyzed, LimitOf(r))]
  IN  IF im = "tree" /\ r.debug = "1"
      THEN [query |-> base.query, scope |-> base.scope, source_tier |-> base.source_tier,
            results |-> base.results,
            debug_failed |-> Slice0(SelectSeq(analyzed, NotCredible), DebugCap)]
      ELSE base

Workers == 1..PoolWidth

WorkerOff == [st |-> "off", idx |-> 0]

\* nothing of a request has happened
HandlerIdle ==
  /\ impl = "tree" /\ req = [method |-> "none"] /\ creds = FALSE
  /\ pc = "idle" /\ source_tier = "" /\ pool = <<>> /\ fbMap = <<>>
  /\ i = 0 /\ out = <<>> /\ wk = [w \in Workers |-> WorkerOff]
  /\ res = [status |-> 0]
  /\ primary = [done |-> FALSE, cands |-> <<>>, pool |-> <<>>]
  /\ fbCalls = 0 /\ fbLog = <<>> /\ claimed = <<>> /\ settled = <<>>

\* a pool that starts a worker for every slot, whatever limit it is given
mapLimitedStart_EverySlot(items, limit) ==
  /\ pool' = items
  /\ out' = [j \in 1..Len(items) |-> <<>>]
  /\ i' = Min(PoolWidth, Len(items))
  /\ wk' = [w \in Workers |-> IF w <= Min(PoolWidth, Len(items))
                               THEN [st |-> "headers", idx |-> w] ELSE WorkerOff]
  /\ claimed' = [w \in 1..Min(PoolWidth, Len(items)) |-> [w |-> w, idx |-> w]]

\* mapLimited(items, limit, fn) up to its await: each of the min(limit, n)
\* workers claims its first index and starts that task; pool holds items
mapLimitedStart(items, limit) ==
  /\ pool' = items
  /\ out' = [j \in 1..Len(items) |-> <<>>]
  /\ i' = Min(limit, Len(items))
  /\ wk' = [w \in Workers |-> IF w <= Min(limit, Len(items))
                               THEN [st |-> "headers", idx |-> w] ELSE WorkerOff]
  /\ claimed' = [w \in 1..Min(limit, Len(items)) |-> [w |-> w, idx |-> w]]

\* a handler that hands the whole pool to the workers
StartPool_NoCap(p) == mapLimitedStart(p, PoolWidth) /\ pc' = "pool"

\* pool = pool.slice(0, 20); const analyzed = await mapLimited(pool, 4, fn)
StartPool(p) == mapLimitedStart(Slice0(p, PoolCap), PoolWidth) /\ pc' = "pool"

\* lines 83-94 (part_000) / 91-102 (search.js) after the primary tier gave
\* cands: aggregate; an empty pool starts tierBSearch, which runs up to
\* addCrossref's fetch; any other pool goes to the worker pool
AfterPrimary(cands, tier) ==
  LET p == Aggregate(impl, cands, ModeOf(req))
  IN  /\ primary' = [done |-> TRUE, cands |-> cands, pool |-> p]
      /\ source_tier' = tier
      /\ IF ShouldFallback(cands, p)
         THEN /\ fbCalls' = fbCalls + 1
              /\ fbMap' = <<>>
              /\ pool' = p
              /\ pc' = "crossref"
              /\ UNCHANGED <<i, out, wk, claimed>>
         ELSE /\ StartPool(p)
              /\ UNCHANGED <<fbCalls, fbMap>>

\* if (req.method === "OPTIONS") { res.writeHead(204, ...).end(); return; }
HandleOptions ==
  /\ pc = "start" /\ req.method = "OPTIONS"
  /\ res' = [status |-> 204]
  /\ pc' = "done"
  /\ UNCHANGED <<impl, req, creds, source_tier, pool, fbMap, i, out, wk, primary, fbCalls,
               fbLog, claimed, settled, fvars>>

\* if (!query) { res.writeHead(400, ...) ...; return; }
RejectEmptyQuery ==
  /\ pc = "start" /\ req.method # "OPTIONS" /\ QueryOf(req) = ""
  /\ res' = [status |-> 400, body |-> [error |-> "query is required"]]
  /\ pc' = "done"
  /\ UNCHANGED <<impl, req, creds, source_tier, pool, fbMap, i, out, wk, primary, fbCalls,
               fbLog, claimed, settled, fvars>>

\* cseSearch throws "Missing CSE_KEY or CSE_CX"; the catch sets FALLBACK
CseMissingCredentials ==
  /\ pc = "start" /\ req.method # "OPTIONS" /\ QueryOf(req) # "" /\ ~creds
  /\ AfterPrimary(<<>>, "FALLBACK")
  /\ UNCHANGED <<impl, req, creds, res,
               fbLog, settled, fvars>>

\* cseSearch sends its request
CseRequest ==
  /\ pc = "start" /\ req.method # "OPTIONS" /\ QueryOf(req) # "" /\ creds
  /\ pc' = "cse"
  /\ source_tier' = "CSE"
  /\ UNCHANGED <<impl, req, creds, pool, fbMap, i, out, wk, res, primary, fbCalls,
               fbLog, claimed, settled, fvars>>

\* the CSE request settles: items, or a throw (abort, 429, other status, bad JSON)
CseResponds ==
  /\ pc = "cse"
  /\ \E r \in CseResponses(QueryOf(req)) :
       IF cseThrows(r) THEN AfterPrimary(<<>>, "FALLBACK")
       ELSE AfterPrimary(cseItems(r), "CSE")
  /\ UNCHANGED <<impl, req, creds, res,
               fbLog, settled, fvars>>

CrossrefResponds ==
  /\ pc = "crossref"
  /\ \E r \in CrossrefResponses(QueryOf(req)) :
       fbMap' = addCrossref(r, fbMap) /\ fbLog' = Append(fbLog, r)
  /\ pc' = "openalex"
  /\ UNCHANGED <<impl, req, creds, source_tier, pool, i, out, wk, res, primary, fbCalls,
               claimed, settled, fvars>>

OpenAlexResponds ==
  /\ pc = "openalex"
  /\ \E r \in OpenAlexResponses(QueryOf(req)) :
       fbMap' = addOpenAlex(r, fbMap) /\ fbLog' = Append(fbLog, r)
  /\ pc' = "wikipedia"
  /\ UNCHANGED <<impl, req, creds, source_tier, pool, i, out, wk, res, primary, fbCalls,
               claimed, settled, fvars>>

\* both requests of addWikipediaRefs, taken together
WikipediaResponds ==
  /\ pc = "wikipedia"
  /\ \E r \in WikipediaResponses(QueryOf(req)) :
       fbMap' = addWikipediaRefs(r, fbMap) /\ fbLog' = Append(fbLog, r)
  /\ pc' = "pubmed"
  /\ UNCHANGED <<impl, req, creds, source_tier, pool, i, out, wk, res, primary, fbCalls,
               claimed, settled, fvars>>

\* addPubMed settles, tierBSearch returns [...map.values()], and handler
\* goes on to the worker pool
PubMedResponds ==
  /\ pc = "pubmed"
  /\ \E r \in PubMedResponses(QueryOf(req)) :
       LET fb == MapValues(addPubMed(r, fbMap))
           p  == Aggregate(impl, fb, ModeOf(req))
       IN  /\ fbMap' = addPubMed(r, fbMap)
           /\ fbLog' = Append(fbLog, r)
           /\ source_tier' = IF Len(p) > 0 THEN FallbackTier ELSE source_tier
           /\ StartPool(p)
  /\ UNCHANGED <<impl, req, creds, res, primary, fbCalls,
               settled, fvars>>

\* the request of worker w is the one its server is answering: any request
\* to an ordinary server, the oldest pending one to a serial server
Served(w) ==
  Serial(pool[wk[w].idx].url)
    => \A v \in Workers : wk[v].st \in {"headers", "body"} => wk[w].idx <= wk[v].idx

\* a worker whose loop test lets it claim one index past the end of the list
Settle_ClaimsPastEnd(w, value) ==
  /\ out' = [out EXCEPT ![wk[w].idx] = value]
  /\ settled' = Append(settled, wk[w].idx)
  /\ IF i <= Len(pool)
     THEN /\ i' = i + 1
          /\ wk' = [wk EXCEPT ![w] = [st |-> "headers", idx |-> i + 1]]
          /\ claimed' = Append(claimed, [w |-> w, idx |-> i + 1])
     ELSE /\ i' = i
          /\ wk' = [wk EXCEPT ![w] = [st |-> "done", idx |-> wk[w].idx]]
          /\ claimed' = claimed

\* worker w stores the task's value in out[idx] and runs its loop test: it
\* claims the next index and starts that fetch, or ends
Settle(w, value) ==
  /\ out' = [out EXCEPT ![wk[w].idx] = value]
  /\ settled' = Append(settled, wk[w].idx)
  /\ IF i < Len(pool)
     THEN /\ i' = i + 1
          /\ wk' = [wk EXCEPT ![w] = [st |-> "headers", idx |-> i + 1]]
          /\ claimed' = Append(claimed, [w |-> w, idx |-> i + 1])
     ELSE /\ i' = i
          /\ wk' = [wk EXCEPT ![w] = [st |-> "done", idx |-> wk[w].idx]]
          /\ claimed' = claimed

\* getPageMeta's fetch rejects (network error, abort at the timeout)
FetchFails(w) ==
  /\ pc = "pool" /\ wk[w].st = "headers" /\ ~Serial(pool[wk[w].idx].url)
  /\ Settle(w, Analyze(impl, pool[wk[w].idx], [kind |-> "fail"]))
  /\ UNCHANGED <<impl, req, creds, pc, source_tier, pool, fbMap, res, primary, fbCalls,
               fbLog, fvars>>

\* the response headers arrive: a PDF is scored at once, any other type
\* goes on to await r.text()
HeadersArrive(w) ==
  /\ pc = "pool" /\ wk[w].st = "headers" /\ Served(w)
  /\ \E ct \in ContentTypes(pool[wk[w].idx].url) :
       IF ct = "pdf"
       THEN Settle(w, Analyze(impl, pool[wk[w].idx], [kind |-> "pdf"]))
       ELSE /\ wk' = [wk EXCEPT ![w].st = "body"]
            /\ UNCHANGED <<i, out, claimed, settled>>
  /\ UNCHANGED <<impl, req, creds, pc, source_tier, pool, fbMap, res, primary, fbCalls,
               fbLog, fvars>>

\* r.text() resolves with the page
BodyArrives(w) ==
  /\ pc = "pool" /\ wk[w].st = "body" /\ Served(w)
  /\ \E page \in Bodies(pool[wk[w].idx].url) : Settle(w, Analyze(impl, pool[wk[w].idx], page))
  /\ UNCHANGED <<impl, req, creds, pc, source_tier, pool, fbMap, res, primary, fbCalls,
               fbLog, fvars>>

\* r.text() rejects (connection lost while reading)
BodyFails(w) ==
  /\ pc = "pool" /\ wk[w].st = "body" /\ ~Serial(pool[wk[w].idx].url)
  /\ Settle(w, Analyze(impl, pool[wk[w].idx], [kind |-> "fail"]))
  /\ UNCHANGED <<impl, req, creds, pc, source_tier, pool, fbMap, res, primary, fbCalls,
               fbLog, fvars>>

\* a wait that ends with the first worker to finish
AllSettled_FirstDone ==
  \/ \A w \in Workers : wk[w].st = "off"
  \/ \E w \in Workers : wk[w].st = "done"

\* await Promise.allSettled(workers): every worker that was started has left
\* its loop
AllSettled == \A w \in Workers : wk[w].st \in {"off", "done"}

\* every worker promise has settled: mapLimited returns out.filter(Boolean)
\* and handler writes the 200 response
Respond ==
  /\ pc = "pool" /\ AllSettled
  /\ res' = [status |-> 200, body |-> PayloadOf(impl, req, source_tier, FilterBoolean(out))]
  /\ pc' = "done"
  /\ UNCHANGED <<impl, req, creds, source_tier, pool, fbMap, i, out, wk, primary, fbCalls,
               fbLog, claimed, settled, fvars>>

Init ==
  /\ req \in HandlerRequests /\ impl \in Impls /\ creds \in BOOLEAN
  /\ pc = "start" /\ source_tier = "" /\ pool = <<>> /\ fbMap = <<>>
  /\ i = 0 /\ out = <<>> /\ wk = [w \in Workers |-> WorkerOff]
  /\ res = [status |-> 0]
  /\ primary = [done |-> FALSE, cands |-> <<>>, pool |-> <<>>]
  /\ fbCalls = 0 /\ fbLog = <<>> /\ claimed = <<>> /\ settled = <<>>
  /\ call = [fn |-> "handler"] /\ phase = "input" /\ ret = "none" /\ ret2 = "none"

Next ==
  \/ HandleOptions
  \/ RejectEmptyQuery
  \/ CseMissingCredentials
  \/ CseRequest
  \/ CseResponds
  \/ CrossrefResponds
  \/ OpenAlexResponds
  \/ WikipediaResponds
  \/ PubMedResponds
  \/ \E w \in Workers : FetchFails(w)
  \/ \E w \in Workers : HeadersArrive(w)
  \/ \E w \in Workers : BodyArrives(w)
  \/ \E w \in Workers : BodyFails(w)
  \/ Respond

Spec == Init /\ [][Next]_vars

-----------------------------------------------------------------------------
(* SpecTrust: the host classifier and the aggregation functions, each      *)
(* applied to inputs drawn from bounded sets                               *)

\* longest candidate list given to dedupeList / prefilterCandidates
MaxList == 3

Scopes == {"web", "wide", "strict"}

\* hosts handed to isTrustedHost: suffix hosts, curated entries and their
\* subdomains, look-alikes of both, and the empty host of an unparsable URL
TrustHosts ==
  { "", "cdc.gov", "mit.edu", "who.int", "sub.who.int", "deped.gov.ph", "lgu.gov.ph",
    "army.mil.int", "un.org", "data.un.org", "notun.org", "un.org.attacker.com",
    "who.int.attacker.com", "notgov.org", "gov.org", "gov", "edu.example.com",
    "a.gov.uk", "europa.eu", "neuropa.eu", "ec.europa.eu",
    "doi.org", "mydoi.org", "doi.org.evil.net", "pubmed.ncbi.nlm.nih.gov",
    "nature.com", "www.nature.com", "signature.com", "nature.com.co",
    "academic.oup.com", "soup.com", "example.com" }

\* candidates the aggregation functions are fed: two titles for one URL, a
\* second URL on the same host, a publisher, a blog, and URLs with no host
TrustCandidates ==
  { [title |-> "WHO a",   url |-> "https://www.who.int/a"],
    [title |-> "WHO a2",  url |-> "https://www.who.int/a"],
    [title |-> "WHO b",   url |-> "https://www.who.int/b"],
    [title |-> "Nature",  url |-> "https://www.nature.com/x"],
    [title |-> "Blog",    url |-> "http://Blog.Example.com/p?x=1"],
    [title |-> "Broken",  url |-> "not a url"] }

RECURSIVE SeqsUpTo(_, _)
SeqsUpTo(S, n) ==
  IF n = 0 THEN {<<>>}
  ELSE LET shorter == SeqsUpTo(S, n - 1)
       IN  shorter \cup {Append(q, x) : q \in {r \in shorter : Len(r) = n - 1}, x \in S}

TrustCalls ==
  [fn : {"isTrustedHost"}, host : TrustHosts, scope : Scopes]
    \cup [fn : {"dedupeList"}, list : SeqsUpTo(TrustCandidates, MaxList)]
    \cup [fn : {"prefilterCandidates"}, list : SeqsUpTo(TrustCandidates, MaxList), mode : Scopes]

InitTrust ==
  /\ call \in TrustCalls /\ phase = "input" /\ ret = "none" /\ ret2 = "none"
  /\ HandlerIdle

ApplyIsTrustedHost ==
  /\ call.fn = "isTrustedHost" /\ phase = "input"
  /\ ret' = isTrustedHost(call.host, call.scope)
  /\ phase' = "returned"
  /\ UNCHANGED <<call, ret2, hvars>>

ApplyDedupeList ==
  /\ call.fn = "dedupeList" /\ phase = "input"
  /\ ret' = dedupeList(call.list)
  /\ phase' = "returned"
  /\ UNCHANGED <<call, ret2, hvars>>

ApplyPrefilterCandidates ==
  /\ call.fn = "prefilterCandidates" /\ phase = "input"
  /\ ret' = prefilterCandidates(call.list, call.mode)
  /\ phase' = "returned"
  /\ UNCHANGED <<call, ret2, hvars>>

\* the function applied to its own output
ReapplyDedupeList ==
  /\ call.fn = "dedupeList" /\ phase = "returned"
  /\ ret2' = dedupeList(ret)
  /\ phase' = "reapplied"
  /\ UNCHANGED <<call, ret, hvars>>

ReapplyPrefilterCandidates ==
  /\ call.fn = "prefilterCandidates" /\ phase = "returned"
  /\ ret2' = prefilterCandidates(ret, call.mode)
  /\ phase' = "reapplied"
  /\ UNCHANGED <<call, ret, hvars>>

NextTrust ==
  \/ ApplyIsTrustedHost
  \/ ApplyDedupeList
  \/ ApplyPrefilterCandidates
  \/ ReapplyDedupeList
  \/ ReapplyPrefilterCandidates

SpecTrust == InitTrust /\ [][NextTrust]_vars


-----------------------------------------------------------------------------
(* SpecScore: the two analyzers, each applied to one candidate and one     *)
(* fetch outcome drawn from bounded sets                                   *)

\* most tokens on a page
MaxTokens == 5

\* words each scoring pattern reacts to, alone or together, and citation links
HtmlTokens ==
  { "references", "opinion", "methods", "research", "subscribe", "shop", "pricing",
    "theorem", "https://doi.org/10.1000/a", "https://doi.org/10.1000/b",
    "https://www.cdc.gov/report/" }

\* ages around the 18 and 60 month brackets
RecentDate == DateAged(300)
MidDate == DateAged(1000)
OldDate == DateAged(2500)

\* (published, modified) as extracted from the page
ScoreDates ==
  { <<NoDate, NoDate>>, <<RecentDate, NoDate>>, <<MidDate, NoDate>>, <<OldDate, NoDate>>,
    <<OldDate, RecentDate>>, <<RecentDate, BadDate>> }

\* title, byline and site name found on the page
ScoreHeads ==
  { [title |-> "", author |-> "", site |-> ""],
    [title |-> "Annual report - Org", author |-> "Jane Roe", site |-> "Org"] }

ScorePages ==
  {[kind |-> "fail"], [kind |-> "pdf"]}
    \cup { [kind |-> "html", title |-> hd.title, author |-> hd.author, site |-> hd.site,
            published |-> d[1], modified |-> d[2], html |-> h] :
           hd \in ScoreHeads, d \in ScoreDates,
           h \in {t \in SUBSET HtmlTokens : Cardinality(t) <= MaxTokens} }

\* a government host, a curated publisher, and a host in no table
ScoreCandidates ==
  { [title |-> "CDC",    url |-> "https://www.cdc.gov/files/guide.pdf"],
    [title |-> "Nature", url |-> "https://www.nature.com/articles/x"],
    [title |-> "",       url |-> "https://blog.example.com/post"] }

\* documents under the other three institutional suffixes
PdfCandidates ==
  { [title |-> "MIT",   url |-> "https://mit.edu/p.pdf"],
    [title |-> "WHO",   url |-> "https://www.who.int/r.pdf"],
    [title |-> "DepEd", url |-> "https://deped.gov.ph/m.pdf"] }

ScoreCalls ==
  [fn : {"analyzeDecisionTree", "analyzeOne"}, c : ScoreCandidates, page : ScorePages]
    \cup [fn : {"analyzeDecisionTree"}, c : PdfCandidates, page : {[kind |-> "pdf"]}]

InitScore ==
  /\ call \in ScoreCalls /\ phase = "input" /\ ret = "none" /\ ret2 = "none"
  /\ HandlerIdle

ApplyAnalyzeDecisionTree ==
  /\ call.fn = "analyzeDecisionTree" /\ phase = "input"
  /\ ret' = analyzeDecisionTree(call.c, call.page)
  /\ phase' = "returned"
  /\ UNCHANGED <<call, ret2, hvars>>

ApplyAnalyzeOne ==
  /\ call.fn = "analyzeOne" /\ phase = "input"
  /\ ret' = analyzeOne(call.c, call.page)
  /\ phase' = "returned"
  /\ UNCHANGED <<call, ret2, hvars>>

NextScore == ApplyAnalyzeDecisionTree \/ ApplyAnalyzeOne

SpecScore == InitScore /\ [][NextScore]_vars

-----------------------------------------------------------------------------
(* SpecMap: mapLimited on its own, run on a list of tasks that resolve with *)
(* a value, resolve with null, or throw                                     *)

\* longest list given to mapLimited
MaxItems == 5

\* what fn does with an item: "val" resolves with a value, "nil" resolves with
\* null (analyzeOne on a page it drops), "throw" rejects
TaskItems == {"val", "nil", "throw"}

MapCalls == [fn : {"mapLimited"}, items : SeqsUpTo(TaskItems, MaxItems), limit : 1..PoolWidth]

\* the value fn(items[idx], idx) resolves with
TaskValue(item, idx) == IF item = "val" THEN <<[item |-> item, idx |-> idx]>> ELSE <<>>

InitMap ==
  /\ call \in MapCalls /\ phase = "input" /\ ret = "none" /\ ret2 = "none"
  /\ HandlerIdle

\* mapLimited is called and runs up to await Promise.allSettled(workers)
MapLimitedCall ==
  /\ call.fn = "mapLimited" /\ phase = "input"
  /\ mapLimitedStart(call.items, call.limit)
  /\ phase' = "running"
  /\ UNCHANGED <<impl, req, creds, pc, source_tier, fbMap, res, primary, fbCalls, fbLog,
               settled, call, ret, ret2>>

\* the task of worker w passes its first await
TaskAdvances(w) ==
  /\ phase = "running" /\ wk[w].st = "headers"
  /\ wk' = [wk EXCEPT ![w].st = "body"]
  /\ UNCHANGED <<impl, req, creds, pc, source_tier, pool, fbMap, i, out, res, primary, fbCalls,
               fbLog, claimed, settled, fvars>>

\* out[idx] = await fn(items[idx], idx)
TaskResolves(w) ==
  /\ phase = "running" /\ wk[w].st = "body" /\ pool[wk[w].idx] # "throw"
  /\ Settle(w, TaskValue(pool[wk[w].idx], wk[w].idx))
  /\ UNCHANGED <<impl, req, creds, pc, source_tier, pool, fbMap, res, primary, fbCalls,
               fbLog, fvars>>

\* a task whose rejection ends the worker that ran it
TaskRejects_WorkerEnds(w) ==
  /\ phase = "running" /\ wk[w].st \in {"headers", "body"} /\ pool[wk[w].idx] = "throw"
  /\ wk' = [wk EXCEPT ![w].st = "done"]
  /\ settled' = Append(settled, wk[w].idx)
  /\ UNCHANGED <<impl, req, creds, pc, source_tier, pool, fbMap, i, out, res, primary, fbCalls,
               fbLog, claimed, fvars>>

\* fn rejects at either await: catch { out[idx] = null; }
TaskRejects(w) ==
  /\ phase = "running" /\ wk[w].st \in {"headers", "body"} /\ pool[wk[w].idx] = "throw"
  /\ Settle(w, <<>>)
  /\ UNCHANGED <<impl, req, creds, pc, source_tier, pool, fbMap, res, primary, fbCalls,
               fbLog, fvars>>

\* a mapLimited that returns the values in the order the tasks settled
MapLimitedReturns_SettleOrder ==
  /\ phase = "running" /\ AllSettled
  /\ ret' = Concat([k \in 1..Len(settled) |-> out[settled[k]]])
  /\ phase' = "returned"
  /\ UNCHANGED <<call, ret2, hvars>>

\* return out.filter(Boolean)
MapLimitedReturns ==
  /\ phase = "running" /\ AllSettled
  /\ ret' = FilterBoolean(out)
  /\ phase' = "returned"
  /\ UNCHANGED <<call, ret2, hvars>>

NextMap ==
  \/ MapLimitedCall
  \/ \E w \in Workers : TaskAdvances(w)
  \/ \E w \in Workers : TaskResolves(w)
  \/ \E w \in Workers : TaskRejects(w)
  \/ MapLimitedReturns

SpecMap == InitMap /\ [][NextMap]_vars

-----------------------------------------------------------------------------
(* SpecFetch: the worker pool over getPageMeta alone, a page being a URL   *)
(* and a fetch outcome being its kind, with the conditions under which the *)
(* code makes a fetch move on                                              *)

\* the pools handed to the workers: the first n of a list of distinct URLs
FetchPools == {[j \in 1..n |-> FloodPrefix \o Numeral[j]] : n \in 0..MaxItems}

FetchCalls == [fn : {"getPageMeta"}, items : FetchPools]

\* getPageMeta's three returns: the PDF record, the parsed page, and the
\* host-only record of the catch
PageMeta(u, kind) == <<[url |-> u, kind |-> kind]>>

InitFetch ==
  /\ call \in FetchCalls /\ phase = "input" /\ ret = <<>> /\ ret2 = "none"
  /\ HandlerIdle

\* await mapLimited(pool, 4, fn): the first fetches are sent, each with its
\* abort timer armed
FetchPoolCall ==
  /\ call.fn = "getPageMeta" /\ phase = "input"
  /\ mapLimitedStart(call.items, PoolWidth)
  /\ phase' = "running"
  /\ UNCHANGED <<impl, req, creds, pc, source_tier, fbMap, res, primary, fbCalls, fbLog,
               settled, call, ret, ret2>>

\* fetch() rejects, on a network error or on ctrl.abort() when the timer
\* fires: the catch returns the host-only record
FetchRejects(w) ==
  /\ phase = "running" /\ wk[w].st = "headers"
  /\ Settle(w, PageMeta(pool[wk[w].idx], "none"))
  /\ UNCHANGED <<impl, req, creds, pc, source_tier, pool, fbMap, res, primary, fbCalls,
               fbLog, fvars>>

\* fetch() resolves with the headers and finally { clearTimeout(id) } runs: a
\* PDF returns at once, any other type goes on to await r.text() with no
\* timer left
FetchResolves(w) ==
  /\ phase = "running" /\ wk[w].st = "headers"
  /\ \E ct \in {"pdf", "html"} :
       IF ct = "pdf"
       THEN Settle(w, PageMeta(pool[wk[w].idx], "pdf"))
       ELSE /\ wk' = [wk EXCEPT ![w].st = "body"]
            /\ UNCHANGED <<i, out, claimed, settled>>
  /\ UNCHANGED <<impl, req, creds, pc, source_tier, pool, fbMap, res, primary, fbCalls,
               fbLog, fvars>>

\* r.text() resolves
TextResolves(w) ==
  /\ phase = "running" /\ wk[w].st = "body"
  /\ Settle(w, PageMeta(pool[wk[w].idx], "html"))
  /\ UNCHANGED <<impl, req, creds, pc, source_tier, pool, fbMap, res, primary, fbCalls,
               fbLog, fvars>>

\* r.text() rejects (the connection is lost): the catch returns the
\* host-only record
TextRejects(w) ==
  /\ phase = "running" /\ wk[w].st = "body"
  /\ Settle(w, PageMeta(pool[wk[w].idx], "none"))
  /\ UNCHANGED <<impl, req, creds, pc, source_tier, pool, fbMap, res, primary, fbCalls,
               fbLog, fvars>>

\* every worker has ended: mapLimited returns to handler
FetchPoolReturns ==
  /\ call.fn = "getPageMeta" /\ phase = "running" /\ AllSettled
  /\ phase' = "returned"
  /\ ret' = FilterBoolean(out)
  /\ UNCHANGED <<call, ret2, hvars>>

NextFetch ==
  \/ FetchPoolCall
  \/ \E w \in Workers : FetchRejects(w)
  \/ \E w \in Workers : FetchResolves(w)
  \/ \E w \in Workers : TextResolves(w)
  \/ \E w \in Workers : TextRejects(w)
  \/ FetchPoolReturns

\* what the code guarantees of a run: handler's own code runs, and while a
\* fetch() is pending its abort timer is armed, so the fetch settles, by its
\* headers or by a rejection. Once the headers are in the timer is cleared and
\* nothing makes r.text() settle, so the body phase carries no condition
FairFetch ==
  /\ WF_vars(FetchPoolCall)
  /\ \A w \in Workers : WF_vars(FetchRejects(w) \/ FetchResolves(w))
  /\ WF_vars(FetchPoolReturns)

SpecFetch == InitFetch /\ [][NextFetch]_vars /\ FairFetch

-----------------------------------------------------------------------------
(* SpecMerge: tierBSearch on its own, applied to four provider answers,    *)
(* and the same four merges made in another order                          *)

\* one of the four merges: 1 addCrossref, 2 addOpenAlex, 3 addWikipediaRefs,
\* 4 addPubMed
addProvider(k, r, map) ==
  IF k = 1 THEN addCrossref(r, map)
  ELSE IF k = 2 THEN addOpenAlex(r, map)
  ELSE IF k = 3 THEN addWikipediaRefs(r, map)
  ELSE addPubMed(r, map)

\* the merges of answers rs made one after the other in the given order
RECURSIVE mergeInOrder(_, _, _)
mergeInOrder(order, rs, map) ==
  IF order = <<>> THEN map
  ELSE mergeInOrder(Tail(order), rs, addProvider(Head(order), rs[Head(order)], map))

\* const map = new Map(); await addCrossref; await addOpenAlex;
\* await addWikipediaRefs; await addPubMed; return [...map.values()]
tierBSearch(rs) == MapValues(mergeInOrder(<<1, 2, 3, 4>>, rs, <<>>))

\* the orders four calls can be made or complete in
CallOrders == {o \in [1..4 -> 1..4] : \A a, b \in 1..4 : a # b => o[a] # o[b]}

\* answers with two rows for one URL, and an answer whose row has no URL
MergeCrossrefResponses ==
  CrossrefResponses("vaccines")
    \cup { [kind |-> "ok", rows |-> << [URL |-> "", DOI |-> "10.1000/a", title |-> "First row"],
                                     [URL |-> DoiUrl, DOI |-> "", title |-> "Second row"] >>],
           [kind |-> "ok", rows |-> << [URL |-> "", DOI |-> "", title |-> "No address"] >>] }

MergeWikipediaResponses ==
  WikipediaResponses("vaccines") \cup { [kind |-> "ok", rows |-> << DoiUrl >>] }

MergeCalls ==
  [fn : {"tierBSearch"},
   rs : MergeCrossrefResponses \X OpenAlexResponses("vaccines") \X MergeWikipediaResponses
          \X PubMedResponses("vaccines"),
   order : CallOrders]

InitMerge ==
  /\ call \in MergeCalls /\ phase = "input" /\ ret = "none" /\ ret2 = "none"
  /\ HandlerIdle

ApplyTierBSearch ==
  /\ call.fn = "tierBSearch" /\ phase = "input"
  /\ ret' = tierBSearch(call.rs)
  /\ phase' = "returned"
  /\ UNCHANGED <<call, ret2, hvars>>

\* the four merges made in the order call.order
ApplyInCallOrder ==
  /\ call.fn = "tierBSearch" /\ phase = "returned"
  /\ ret2' = MapValues(mergeInOrder(call.order, call.rs, <<>>))
  /\ phase' = "reapplied"
  /\ UNCHANGED <<call, ret, hvars>>

NextMerge == ApplyTierBSearch \/ ApplyInCallOrder

SpecMerge == InitMerge /\ [][NextMerge]_vars

-----------------------------------------------------------------------------
(* SpecAdjust: pdfAdjust on its own, applied to any six scores, and        *)
(* applied again to what it returned                                       *)

\* addresses under each of the four suffixes, under none of them, with the
\* suffix in the wrong place, and with no host
AdjustUrls ==
  { "https://www.cdc.gov/files/guide.pdf", "https://mit.edu/p.pdf", "https://www.who.int/r.pdf",
    "https://deped.gov.ph/m.pdf", "https://www.nature.com/x.pdf",
    "https://gov.example.com/a.gov", "https://notgov/x.pdf", "not a url" }

\* the scores the six scorers can give, and every Authority and Accuracy
AdjustScores ==
  [Authority : 1..5, Accuracy : 1..5, Currency : {1, 3, 5}, Objectivity : {2, 4},
   Purpose : {1, 3, 5}, Audience : {2, 3}]

AdjustCalls == [fn : {"pdfAdjust"}, pdf : BOOLEAN, url : AdjustUrls, scores : AdjustScores]

InitAdjust ==
  /\ call \in AdjustCalls /\ phase = "input" /\ ret = "none" /\ ret2 = "none"
  /\ HandlerIdle

ApplyPdfAdjust ==
  /\ call.fn = "pdfAdjust" /\ phase = "input"
  /\ ret' = pdfAdjust([HostOnlyMeta(call.url) EXCEPT !.pdf = call.pdf], call.url, call.scores)
  /\ phase' = "returned"
  /\ UNCHANGED <<call, ret2, hvars>>

\* pdfAdjust on the scores it has adjusted
ReapplyPdfAdjust ==
  /\ call.fn = "pdfAdjust" /\ phase = "returned"
  /\ ret2' = pdfAdjust([HostOnlyMeta(call.url) EXCEPT !.pdf = call.pdf], call.url, ret)
  /\ phase' = "reapplied"
  /\ UNCHANGED <<call, ret, hvars>>

NextAdjust == ApplyPdfAdjust \/ ReapplyPdfAdjust

SpecAdjust == InitAdjust /\ [][NextAdjust]_vars

-----------------------------------------------------------------------------
(* Host names as label sequences: the reading of "suffix" and "subdomain"  *)
(* the classifier's contract is stated in                                  *)

RECURSIVE Labels(_)
Labels(h) ==
  LET n == SpanUntil(h, {"."})
  IN  IF n = Len(h) THEN <<h>> ELSE <<SubSeq(h, 1, n)>> \o Labels(Drop(h, n + 2))

IsSeqSuffix(a, b) == Len(a) <= Len(b) /\ SubSeq(b, Len(b) - Len(a) + 1, Len(b)) = a

\* the host lies under a top-level gov / edu / int zone or under gov.ph
HasInstitutionalSuffix(h) ==
  LET L == Labels(h)
  IN  \/ Len(L) >= 2 /\ L[Len(L)] \in {"gov", "edu", "int"}
      \/ Len(L) >= 3 /\ L[Len(L) - 1] = "gov" /\ L[Len(L)] = "ph"

\* the host is a table entry or a subdomain of one
IsEntryOrSubdomain(h, tier) == \E t \in tier : IsSeqSuffix(Labels(t), Labels(h))

\* hosts that only resemble a trusted one
StrictLookAlikes ==
  { "notun.org", "un.org.attacker.com", "who.int.attacker.com", "notgov.org", "gov.org",
    "neuropa.eu", "edu.example.com", "a.gov.uk", "gov" }
WideLookAlikes ==
  { "mydoi.org", "doi.org.evil.net", "signature.com", "nature.com.co", "soup.com" }

\* the distinct URLs of a list at their first occurrence
FirstIdx(list) == {j \in 1..Len(list) : \A k \in 1..(j - 1) : list[k].url # list[j].url}
Rank(list, j) == Cardinality({k \in FirstIdx(list) : k <= j})

\* kept holds one entry per distinct URL of list, in first-occurrence order,
\* with the first occurrence's title
IsFirstSeenDedupe(kept, list) ==
  /\ Len(kept) = Cardinality(FirstIdx(list))
  /\ \A j \in FirstIdx(list) :
       /\ kept[Rank(list, j)].url = list[j].url
       /\ kept[Rank(list, j)].title = list[j].title

\* the entries of list whose URL's host the scope admits
Survivors(list, mode) == SelectSeq(list, LAMBDA c : isTrustedHost(hostOf(c.url), mode))

-----------------------------------------------------------------------------
(* Claims                                                                  *)

\* C5: every non-empty host ending in .gov, .edu, .int or .gov.ph is trusted
\* by isTrustedHost under each of the scopes web, wide and strict.
C5_SuffixHostsTrustedInEveryScope ==
  (call.fn = "isTrustedHost" /\ phase = "returned"
     /\ call.host # "" /\ HasInstitutionalSuffix(call.host))
  => ret = TRUE

\* a .gov.ph host outside the core table, classified under strict
C5_Witness ==
  /\ call.fn = "isTrustedHost" /\ phase = "returned"
  /\ call.host = "lgu.gov.ph" /\ call.scope = "strict" /\ ret = TRUE

\* C6: under strict a host is trusted exactly when it has an institutional
\* suffix or is a core-institution entry or a subdomain of one; under wide the
\* same rule also covers the index and publisher tables; a host that holds an
\* entry only as a substring, a partial label or a non-final label run is not
\* trusted.
C6_ExactOrDotSuffixMatch ==
  (call.fn = "isTrustedHost" /\ phase = "returned") =>
    /\ call.scope = "strict" =>
         /\ ret = (HasInstitutionalSuffix(call.host) \/ IsEntryOrSubdomain(call.host, TIER1_CORE))
         /\ call.host \in StrictLookAlikes => ret = FALSE
    /\ call.scope = "wide" =>
         /\ ret = (\/ HasInstitutionalSuffix(call.host)
                   \/ IsEntryOrSubdomain(call.host, TIER1_CORE)
                   \/ IsEntryOrSubdomain(call.host, TIER2_INDEXES)
                   \/ IsEntryOrSubdomain(call.host, TIER3_PUBLISHERS))
         /\ call.host \in StrictLookAlikes \cup WideLookAlikes => ret = FALSE

\* who.int.attacker.com refused under strict
C6_Witness ==
  /\ call.fn = "isTrustedHost" /\ phase = "returned"
  /\ call.host = "who.int.attacker.com" /\ call.scope = "strict" /\ ret = FALSE

\* C7: under scope web isTrustedHost is true for every host and
\* prefilterCandidates keeps one entry for every distinct URL of its input,
\* also for a URL that does not parse into a host.
C7_WebPrefilterIsNoOp ==
  /\ (call.fn = "isTrustedHost" /\ phase = "returned" /\ call.scope = "web") => ret = TRUE
  /\ (call.fn = "prefilterCandidates" /\ phase = "returned" /\ call.mode = "web")
       => IsFirstSeenDedupe(ret, call.list)

\* C8: dedupeList, and prefilterCandidates under any scope, return one entry
\* per distinct surviving URL, in first-occurrence order with the first
\* occurrence's title, and return their own output unchanged.
C8_DedupeFirstSeenIdempotent ==
  /\ (call.fn = "dedupeList" /\ phase # "input") => IsFirstSeenDedupe(ret, call.list)
  /\ (call.fn = "prefilterCandidates" /\ phase # "input")
       => IsFirstSeenDedupe(ret, Survivors(call.list, call.mode))
  /\ (call.fn \in {"dedupeList", "prefilterCandidates"} /\ phase = "reapplied") => ret2 = ret

\* a list with one URL under two titles, deduplicated twice
C8_Witness ==
  /\ call.fn = "dedupeList" /\ phase = "reapplied"
  /\ Len(call.list) = 3 /\ call.list[1].url = call.list[3].url
  /\ call.list[1].title # call.list[3].title
  /\ Len(ret) = 2 /\ ret[1].title = call.list[1].title

\* C1: a result of analyzeDecisionTree whose reported Accuracy score is 1 or
\* 2 has verdict NOT_CREDIBLE and failed_stage "Accuracy", whatever the other
\* five scores are.
C1_LowAccuracyKills ==
  (call.fn = "analyzeDecisionTree" /\ phase = "returned" /\ ret.scores.Accuracy \in {1, 2})
  => (ret.verdict = "NOT_CREDIBLE" /\ ret.failed_stage = "Accuracy")

\* Accuracy and Objectivity both fail; the Accuracy gate is the one reported
C1_Witness ==
  /\ call.fn = "analyzeDecisionTree" /\ phase = "returned"
  /\ ret.scores.Accuracy = 1 /\ ret.scores.Objectivity = 2
  /\ ret.failed_stage = "Accuracy"

\* C2: the verdict of analyzeDecisionTree is CREDIBLE when the reported
\* (post-adjustment) Accuracy and Objectivity scores are both at least 3,
\* whatever Authority, Currency, Purpose and Audience are, and NOT_CREDIBLE
\* otherwise.
C2_VerdictIffBothGatesPass ==
  (call.fn = "analyzeDecisionTree" /\ phase = "returned") =>
    ret.verdict = IF ret.scores.Accuracy >= 3 /\ ret.scores.Objectivity >= 3
                  THEN "CREDIBLE" ELSE "NOT_CREDIBLE"

\* CREDIBLE although all four advisory criteria fail
C2_Witness ==
  /\ call.fn = "analyzeDecisionTree" /\ phase = "returned" /\ ret.verdict = "CREDIBLE"
  /\ ret.scores.Authority = 1 /\ ret.scores.Currency = 1
  /\ ret.scores.Purpose = 1 /\ ret.scores.Audience = 2

\* C3: every CREDIBLE result of either analyzer has Accuracy >= 3 and
\* Objectivity >= 3.
C3_CredibleHasBothGates ==
  /\ (call.fn = "analyzeDecisionTree" /\ phase = "returned" /\ ret.verdict = "CREDIBLE")
       => (ret.scores.Accuracy >= 3 /\ ret.scores.Objectivity >= 3)
  /\ (call.fn = "analyzeOne" /\ phase = "returned") =>
       \A k \in 1..Len(ret) :
         ret[k].verdict = "CREDIBLE"
           => (ret[k].scores.Accuracy >= 3 /\ ret[k].scores.Objectivity >= 3)

\* analyzeOne returns a biased page (Objectivity 3) as CREDIBLE on its total
C3_Witness ==
  /\ call.fn = "analyzeOne" /\ phase = "returned" /\ Len(ret) = 1
  /\ ret[1].verdict = "CREDIBLE" /\ ret[1].scores.Objectivity = 3
  /\ ret[1].scores.Accuracy = 5

\* C4: in every result finalize builds, each of the six reported scores is an
\* integer in 1..5 and score_total is their sum, hence in 6..30.
C4_TotalIsSumOfSix ==
  (call.fn = "analyzeDecisionTree" /\ phase = "returned") =>
    /\ DOMAIN ret.scores
         = {"Authority", "Accuracy", "Currency", "Objectivity", "Purpose", "Audience"}
    /\ \A n \in DOMAIN ret.scores : ret.scores[n] \in 1..5
    /\ ret.score_total = ret.scores["Authority"] + ret.scores["Accuracy"]
                           + ret.scores["Currency"] + ret.scores["Objectivity"]
                           + ret.scores["Purpose"] + ret.scores["Audience"]
    /\ ret.score_total \in 6..30

\* a result finalized at the Objectivity gate, with its full six-score total
C4_Witness ==
  /\ call.fn = "analyzeDecisionTree" /\ phase = "returned"
  /\ ret.failed_stage = "Objectivity" /\ ret.scores.Purpose = 5
  /\ ret.score_total = 5 + 5 + 5 + 2 + 5 + 3

\* C9: a request whose cseSearch throws for missing credentials is answered
\* with status 200 after the fallback cascade ran, and when a fallback
\* candidate was scored CREDIBLE the results list is non-empty and source_tier
\* is "Crossref/OpenAlex/Wikipedia/PubMed".
C9_CredentialFailureStillAnswers ==
  (pc = "done" /\ req.method # "OPTIONS" /\ QueryOf(req) # "" /\ ~creds) =>
    /\ res.status = 200
    /\ fbCalls = 1
    /\ (\E k \in 1..Len(out) : out[k] # <<>> /\ out[k][1].verdict = "CREDIBLE")
         => (res.body.results # <<>> /\ res.body.source_tier = FallbackTier)

\* C10: tierBSearch has been invoked exactly when the primary tier's pool,
\* after dedupeList / prefilterCandidates, came out empty, and never more than
\* once in a request.
C10_FallbackIffPrimaryPoolEmpty ==
  /\ fbCalls <= 1
  /\ (fbCalls = 1) <=> (primary.done /\ primary.pool = <<>>)
  /\ (pc = "done" /\ res.status = 200) => primary.done

\* the primary tier found candidates, the strict prefilter dropped them all,
\* and the request was answered from the fallback
C10_Witness ==
  /\ pc = "done" /\ res.status = 200 /\ fbCalls = 1
  /\ primary.cands # <<>> /\ primary.pool = <<>>
  /\ res.body.source_tier = FallbackTier

\* the URLs the k-th provider of the cascade contributes with answer r
ProviderUrls(k, r) ==
  IF r.kind = "fail" THEN {}
  ELSE LET e == Concat([n \in 1..Len(r.rows) |->
                          IF k = 1 THEN crossrefEntry(r.rows[n])
                          ELSE IF k = 2 THEN openAlexEntry(r.rows[n])
                          ELSE IF k = 3 THEN wikiEntry(r.rows[n])
                          ELSE pubMedEntry(r.rows[n])])
       IN  {e[n].url : n \in 1..Len(e)}

\* C11: whichever fallback providers fail, the cascade goes through all four
\* of them, the map it builds and returns holds exactly the URLs of the
\* providers that answered, and when nothing was found the response is a 200 with an empty
\* results list and no page fetch was started.
C11_ProviderFailuresSwallowed ==
  /\ Len(fbLog) <= 4
  /\ (fbCalls = 1 /\ pc \in {"pool", "done"}) => Len(fbLog) = 4
  /\ (pc \in {"crossref", "openalex", "wikipedia", "pubmed"} \/ (pc = "pool" /\ settled = <<>>))
       => {fbMap[j].key : j \in 1..Len(fbMap)}
            = UNION {ProviderUrls(k, fbLog[k]) : k \in 1..Len(fbLog)}
  /\ (pc = "done" /\ fbCalls = 1 /\ fbMap = <<>>)
       => (res.status = 200 /\ res.body.results = <<>> /\ i = 0 /\ claimed = <<>>)

\* Crossref and Wikipedia fail, OpenAlex and PubMed answer, and the request
\* is served from their two candidates
C11_Witness ==
  /\ pc = "done" /\ res.status = 200 /\ Len(fbLog) = 4
  /\ fbLog[1].kind = "fail" /\ fbLog[2].kind = "ok"
  /\ fbLog[3].kind = "fail" /\ fbLog[4].kind = "ok"
  /\ Len(fbMap) = 2 /\ Len(settled) = 2

\* the place of a result's candidate in the analysed pool
PoolIdx(u) == CHOOSE j \in 1..Len(pool) : pool[j].url = u

\* C12: the results list of a success response is in non-increasing order of
\* score_total, and results with equal totals stand in the order of their
\* candidates in the pool, whatever order the tasks settled in.
C12_ResultsSortedByTotal ==
  (pc = "done" /\ res.status = 200) =>
    \A a, b \in 1..Len(res.body.results) :
      a < b =>
        /\ res.body.results[a].score_total >= res.body.results[b].score_total
        /\ res.body.results[a].score_total = res.body.results[b].score_total
             => PoolIdx(res.body.results[a].url) < PoolIdx(res.body.results[b].url)

\* C13: whatever the max parameter is, the results list has at most 12
\* entries, at most max entries when max is an integer in 1..12, and is the
\* list max = 8 gives when max is absent or has no number in it.
C13_ResultsWithinMax ==
  (pc = "done" /\ res.status = 200) =>
    LET n == parseInt(Param(req.max, "8"))
    IN  /\ Len(res.body.results) <= 12
        /\ (~n.nan /\ n.val \in 1..12) => Len(res.body.results) <= n.val
        /\ (req.max = Absent \/ n.nan)
             => res.body.results = ResultsOf(impl, FilterBoolean(out), 8)

\* C14: the source_tier of a success response is "CSE" or the fallback
\* composite name; it is "CSE" only when the analysed pool is the primary
\* tier's and the composite name only when it is the fallback cascade's.
C14_SourceTierNamesPoolTier ==
  (pc = "done" /\ res.status = 200) =>
    /\ res.body.source_tier \in {"CSE", "Crossref/OpenAlex/Wikipedia/PubMed"}
    /\ res.body.source_tier = "CSE" => (fbCalls = 0 /\ pool = Slice0(primary.pool, 20))
    /\ res.body.source_tier = "Crossref/OpenAlex/Wikipedia/PubMed" => fbCalls = 1

\* C15: the pool handed to the workers is the first 20 entries of the
\* aggregated candidates, so at most 20 page fetches are started in a request
\* and none for a candidate beyond the cap, however many candidates the
\* providers gave
C15_PoolCappedAtTwenty ==
  /\ Len(claimed) <= PoolCap
  /\ \A k \in 1..Len(claimed) : claimed[k].idx \in 1..PoolCap
  /\ (pc \in {"pool", "done"} /\ primary.done) =>
       /\ Len(pool) <= PoolCap
       /\ Len(out) = Len(pool)
       /\ fbCalls = 0 => pool = Slice0(primary.pool, PoolCap)
       /\ fbCalls = 1 =>
            pool = Slice0(Aggregate(impl, MapValues(fbMap), ModeOf(req)), PoolCap)

\* 22 fallback candidates were found, 20 of them were fetched
C15_Witness ==
  /\ pc = "done" /\ res.status = 200
  /\ Len(fbMap) = 22 /\ Len(Aggregate(impl, MapValues(fbMap), ModeOf(req))) = 22
  /\ Len(pool) = PoolCap /\ Len(claimed) = PoolCap /\ Len(settled) = PoolCap


\* index j of the list has settled
HasSettled(j) == \E k \in 1..Len(settled) : settled[k] = j

\* what mapLimited returns for items when only the tasks that throw are lost
ExpectedOut(items) ==
  Concat([j \in 1..Len(items) |-> IF items[j] = "throw" THEN <<>> ELSE TaskValue(items[j], j)])

\* C16: in mapLimited a task that throws or rejects leaves null at its own
\* index and nowhere else: every other index holds the value its task resolved
\* with, the returned list is the list of those values in index order, and the
\* step in which a task fails changes no other worker and makes the worker
\* that ran it claim the next index if one is left
C16_TaskFailureIsolated ==
  /\ [](phase \in {"running", "returned"} =>
          /\ \A j \in 1..Len(pool) :
               HasSettled(j) =>
                 out[j] = IF pool[j] = "throw" THEN <<>> ELSE TaskValue(pool[j], j)
          /\ phase = "returned" =>
               /\ \A j \in 1..Len(pool) : HasSettled(j)
               /\ ret = ExpectedOut(pool))
  /\ [][\A w \in Workers :
          ( /\ phase = "running" /\ wk[w].st \in {"headers", "body"}
            /\ pool[wk[w].idx] = "throw"
            /\ settled' = Append(settled, wk[w].idx) )
          => /\ \A v \in Workers \ {w} : wk'[v] = wk[v]
             /\ out' = [out EXCEPT ![wk[w].idx] = <<>>]
             /\ i < Len(pool) => (wk'[w] = [st |-> "headers", idx |-> i + 1] /\ i' = i + 1)
             /\ i >= Len(pool) => wk'[w].st = "done"]_vars

\* the first task threw, the worker that ran it went on to run another one,
\* and the four other tasks are all in the returned list
C16_Witness ==
  /\ phase = "returned" /\ call.limit = 2
  /\ pool = <<"throw", "val", "val", "val", "val">>
  /\ Len(ret) = 4 /\ out[1] = <<>>
  /\ \E k \in 2..Len(claimed) : claimed[k].w = 1


\* C17: a success response is written only when every candidate of the capped
\* pool has been claimed and has settled and no task is in flight, and its
\* results are computed from the outcomes of the whole pool
C17_ResponseAfterAllSettled ==
  (pc = "done" /\ res.status = 200) =>
    /\ i = Len(pool) /\ Len(claimed) = Len(pool) /\ Len(settled) = Len(pool)
    /\ \A j \in 1..Len(pool) : HasSettled(j)
    /\ \A w \in Workers : wk[w].st \notin {"headers", "body"}
    /\ res.body.results = ResultsOf(impl, FilterBoolean(out), LimitOf(req))

\* a pool of three whose last candidate settled first and whose first
\* candidate settled last
C17_Witness ==
  /\ pc = "done" /\ res.status = 200
  /\ Len(pool) = 3 /\ Len(settled) = 3 /\ settled[1] = 3 /\ settled[3] = 1
  /\ Len(res.body.results) >= 1

\* C18: every page fetch is cut off by its timeout, before the headers or
\* during the body, so every task that was started eventually settles, the
\* pool eventually completes and the request gets its answer
C18_EveryFetchSettles ==
  /\ \A w \in Workers : (wk[w].st \in {"headers", "body"}) ~> (wk[w].st = "done")
  /\ (phase = "running") ~> AllSettled
  /\ (phase = "input") ~> (phase = "returned")

\* tasks that were claimed and have not settled
InFlight == Len(claimed) - Len(settled)

\* C19: in mapLimited the tasks claimed and not yet settled never number more
\* than min(limit, number of items), as many workers are busy as tasks are in
\* flight, and once the pool runs an index is claimed only in the step in
\* which a task settles, one index at a time and by the worker whose task it was
C19_AtMostLimitInFlight ==
  /\ [](phase \in {"running", "returned"} =>
          /\ InFlight <= Min(call.limit, Len(pool))
          /\ InFlight <= PoolWidth
          /\ InFlight = Cardinality({w \in Workers : wk[w].st \in {"headers", "body"}}))
  /\ [][(phase = "running" /\ claimed' # claimed) =>
          /\ Len(claimed') = Len(claimed) + 1
          /\ Len(settled') = Len(settled) + 1
          /\ SubSeq(claimed', 1, Len(claimed)) = claimed
          /\ wk[claimed'[Len(claimed')].w].idx = settled'[Len(settled')]]_vars

\* mapLimited(items, 4, fn) on five items: one task has settled, the fifth
\* was claimed in its place and four are in flight
C19_Witness ==
  /\ phase = "running" /\ call.limit = PoolWidth /\ Len(pool) = 5
  /\ Len(claimed) = 5 /\ Len(settled) = 1 /\ InFlight = 4

\* C20: in mapLimited the k-th claim is of index k, made by one of the started
\* workers, so no index is claimed twice and none outside the list; no index
\* settles twice or without having been claimed; and when mapLimited returns
\* the claims are exactly the indices of the list
C20_EachIndexClaimedOnce ==
  phase \in {"running", "returned"} =>
    /\ i = Len(claimed) /\ Len(claimed) <= Len(pool)
    /\ \A k \in 1..Len(claimed) :
         /\ claimed[k].idx = k
         /\ claimed[k].w \in 1..Min(call.limit, Len(pool))
    /\ \A k, l \in 1..Len(claimed) : k # l => claimed[k].idx # claimed[l].idx
    /\ \A k, l \in 1..Len(settled) : k # l => settled[k] # settled[l]
    /\ \A k \in 1..Len(settled) : settled[k] \in 1..Len(claimed)
    /\ \A w \in Workers :
         wk[w].st \in {"headers", "body"} =>
           (~HasSettled(wk[w].idx) /\ \A v \in Workers \ {w} : wk[v].idx # wk[w].idx)
    /\ phase = "returned" =>
         /\ {claimed[k].idx : k \in 1..Len(claimed)} = 1..Len(pool)
         /\ {settled[k] : k \in 1..Len(settled)} = 1..Len(pool)

\* three workers shared five items: the third worker claimed the fourth, the
\* second the fifth, and the fifth task settled before the fourth
C20_Witness ==
  /\ phase = "returned" /\ call.limit = 3 /\ Len(pool) = 5 /\ Len(claimed) = 5
  /\ claimed[4].w = 3 /\ claimed[5].w = 2
  /\ settled[4] = 5 /\ settled[5] = 4

SeenEntries(rs) ==
  Concat([k \in 1..4 |->
            IF rs[k].kind = "fail" THEN <<>>
            ELSE Concat([n \in 1..Len(rs[k].rows) |->
                           IF k = 1 THEN crossrefEntry(rs[k].rows[n])
                           ELSE IF k = 2 THEN openAlexEntry(rs[k].rows[n])
                           ELSE IF k = 3 THEN wikiEntry(rs[k].rows[n])
                           ELSE pubMedEntry(rs[k].rows[n])])])

\* the first candidate of list l with URL u
FirstSeen(l, u) == l[CHOOSE n \in 1..Len(l) : l[n].url = u /\ \A j \in 1..(n - 1) : l[j].url # u]

\* C22: the list tierBSearch returns holds one entry for each URL the
\* providers returned, and that entry carries the title of the first
\* candidate seen with that URL
C22_FallbackFirstSeenTitle ==
  phase \in {"returned", "reapplied"} =>
    /\ \A a, b \in 1..Len(ret) : a # b => ret[a].url # ret[b].url
    /\ {ret[n].url : n \in 1..Len(ret)}
         = {SeenEntries(call.rs)[n].url : n \in 1..Len(SeenEntries(call.rs))}
    /\ \A n \in 1..Len(ret) : ret[n].title = FirstSeen(SeenEntries(call.rs), ret[n].url).title

\* C23: for a page fetch that failed getPageMeta gives the host-only record
\* (no title, author, dates or content, the bare host as publisher), and
\* analyzeDecisionTree returns a full result for the candidate whose scores
\* come from the host alone: Authority 5 on a listed host and 1 elsewhere,
\* the other five at their empty-page values
C23_FetchFailureStillScored ==
  (phase = "returned" /\ call.fn = "analyzeDecisionTree" /\ call.page.kind = "fail") =>
    /\ getPageMeta(call.c.url, call.page)
         = [url |-> call.c.url, title |-> "", author |-> "", published |-> NoDate,
            modified |-> NoDate, publisher |-> hostOf(call.c.url), html |-> {}, pdf |-> FALSE]
    /\ ret.url = call.c.url
    /\ ret.publisher = hostOf(call.c.url)
    /\ ret.title = IF call.c.title # "" THEN call.c.title ELSE call.c.url
    /\ ret.scores = [Authority   |-> IF hostOf(call.c.url) \in {"cdc.gov", "nature.com"}
                                     THEN 5 ELSE 1,
                     Accuracy    |-> 1,
                     Currency    |-> 1,
                     Objectivity |-> 4,
                     Purpose     |-> 3,
                     Audience    |-> 3]
    /\ ret.score_total = ret.scores.Authority + 12
    /\ ret.verdict = "NOT_CREDIBLE"
    /\ ret.failed_stage = "Accuracy"

\* a failed fetch of a government URL, scored 5 for Authority
C23_Witness ==
  /\ phase = "returned" /\ call.fn = "analyzeDecisionTree" /\ call.page.kind = "fail"
  /\ hostOf(call.c.url) = "cdc.gov"
  /\ ret.scores.Authority = 5 /\ ret.score_total = 17 /\ ret.publisher = "cdc.gov"

\* C24: pdfAdjust raises Authority to 5 and Accuracy to at least 3 exactly
\* when the source is a PDF on a host under a gov, edu, int or gov.ph suffix,
\* leaves Currency, Objectivity, Purpose and Audience as they were, changes
\* nothing for any other source, and changes nothing when applied again
C24_PdfAdjustFrame ==
  (call.fn = "pdfAdjust" /\ phase \in {"returned", "reapplied"}) =>
    /\ IF call.pdf /\ HasInstitutionalSuffix(hostOf(call.url))
       THEN /\ ret.Authority = 5
            /\ ret.Accuracy = Max(call.scores.Accuracy, 3)
       ELSE /\ ret.Authority = call.scores.Authority
            /\ ret.Accuracy = call.scores.Accuracy
    /\ ret.Currency = call.scores.Currency
    /\ ret.Objectivity = call.scores.Objectivity
    /\ ret.Purpose = call.scores.Purpose
    /\ ret.Audience = call.scores.Audience
    /\ DOMAIN ret = DOMAIN call.scores
    /\ phase = "reapplied" => ret2 = ret

\* a PDF under gov.ph with Authority 3 and Accuracy 1, adjusted to 5 and 3,
\* and adjusted again
C24_Witness ==
  /\ call.fn = "pdfAdjust" /\ phase = "reapplied" /\ call.pdf
  /\ hostOf(call.url) = "deped.gov.ph"
  /\ call.scores.Authority = 3 /\ call.scores.Accuracy = 1
  /\ ret.Authority = 5 /\ ret.Accuracy = 3 /\ ret2 = ret

\* the place of a criterion in the evaluation order
CriterionRank(stage) == CHOOSE k \in 1..Len(CriterionOrder) : CriterionOrder[k] = stage

\* C25: in a result of analyzeDecisionTree every note names a criterion whose
\* final score is below 3, the notes follow the evaluation order Authority,
\* Accuracy, Currency, Objectivity, Purpose, Audience with no criterion noted
\* twice, a note for Authority or Currency is failed-soft and a note for
\* Purpose or Audience is explain
C25_StageNotesOrdered ==
  (call.fn = "analyzeDecisionTree" /\ phase = "returned") =>
    /\ \A k \in 1..Len(ret.stage_notes) :
         /\ ret.stage_notes[k].stage \in {CriterionOrder[j] : j \in 1..Len(CriterionOrder)}
         /\ ret.scores[ret.stage_notes[k].stage] < 3
         /\ ret.stage_notes[k].stage \in {"Authority", "Currency"}
              => ret.stage_notes[k].status = "failed-soft"
         /\ ret.stage_notes[k].stage \in {"Purpose", "Audience"}
              => ret.stage_notes[k].status = "explain"
    /\ \A k, l \in 1..Len(ret.stage_notes) :
         k < l => CriterionRank(ret.stage_notes[k].stage) < CriterionRank(ret.stage_notes[l].stage)

\* all four criteria that can be noted are, in order
C25_Witness ==
  /\ call.fn = "analyzeDecisionTree" /\ phase = "returned"
  /\ Len(ret.stage_notes) = 4
  /\ ret.stage_notes[1] = [stage |-> "Authority", status |-> "failed-soft"]
  /\ ret.stage_notes[2] = [stage |-> "Currency", status |-> "failed-soft"]
  /\ ret.stage_notes[3] = [stage |-> "Purpose", status |-> "explain"]
  /\ ret.stage_notes[4] = [stage |-> "Audience", status |-> "explain"]

\* the age in days of the later of the dates of a page that parse
LaterAge(page) ==
  IF page.published.valid /\ page.modified.valid
  THEN Min(page.published.ageDays, page.modified.ageDays)
  ELSE IF page.modified.valid THEN page.modified.ageDays
  ELSE page.published.ageDays

\* C26: when the published or the modified date of a page parses, Currency
\* is the bracket of the later parsable date: 5 up to 18 months, 3 up to 60,
\* else 1
C26_CurrencyOfLaterDate ==
  ( /\ call.fn = "analyzeDecisionTree" /\ phase = "returned" /\ call.page.kind = "html"
    /\ (call.page.published.valid \/ call.page.modified.valid) )
  => ret.scores.Currency = IF LaterAge(call.page) <= 18 * 30 THEN 5
                           ELSE IF LaterAge(call.page) <= 60 * 30 THEN 3
                           ELSE 1

\* C27: the list mapLimited returns holds the values of the tasks that gave
\* one, by rising index, and is the same list for a given input whatever the
\* order the tasks settled in
C27_ReturnInInputOrder ==
  (call.fn = "mapLimited" /\ phase = "returned") =>
    /\ \A a, b \in 1..Len(ret) : a < b => ret[a].idx < ret[b].idx
    /\ \A a \in 1..Len(ret) : call.items[ret[a].idx] = "val" /\ ret[a].item = "val"
    /\ Len(ret) = Cardinality({j \in 1..Len(call.items) : call.items[j] = "val"})
    /\ ret = ExpectedOut(call.items)

\* the third task settled first and the first one last; the list returned
\* starts with the first
C27_Witness ==
  /\ call.fn = "mapLimited" /\ phase = "returned"
  /\ call.items = <<"val", "val", "val", "throw", "val">>
  /\ settled[1] = 3 /\ settled[5] = 1
  /\ Len(ret) = 4 /\ ret[1].idx = 1 /\ ret[4].idx = 5

\* C28: a candidate that getPageMeta flags as a PDF and whose host lies under
\* a gov, edu, int or gov.ph suffix gets from analyzeDecisionTree the verdict
\* CREDIBLE with no failed stage and the scores Authority 5, Accuracy 3,
\* Currency 3, Objectivity 4, Purpose 3, Audience 3, 21 in all
C28_InstitutionalPdfCredible ==
  ( /\ call.fn = "analyzeDecisionTree" /\ phase = "returned"
    /\ getPageMeta(call.c.url, call.page).pdf
    /\ HasInstitutionalSuffix(hostOf(call.c.url)) )
  => /\ ret.verdict = "CREDIBLE"
     /\ ret.failed_stage = "null"
     /\ ret.scores = [Authority |-> 5, Accuracy |-> 3, Currency |-> 3, Objectivity |-> 4,
                      Purpose |-> 3, Audience |-> 3]
     /\ ret.score_total = 21
     /\ ret.stage_notes = <<>>

\* a PDF under gov.ph, credible with 21
C28_Witness ==
  /\ call.fn = "analyzeDecisionTree" /\ phase = "returned" /\ call.page.kind = "pdf"
  /\ hostOf(call.c.url) = "deped.gov.ph"
  /\ ret.verdict = "CREDIBLE" /\ ret.score_total = 21


=============================================================================
